---- MODULE Spec2Model ----
(***************************************************************************)
(* A model of the code_agent crate: the agent loop (agent_loop.rs), the    *)
(* tool registry (tool_registry.rs), the execution strategies              *)
(* (executors.rs) and the builtin tools the loop dispatches to.            *)
(*                                                                         *)
(* Conventions                                                             *)
(*   Option<T>   a sequence of length 0 (None) or 1 (Some(x))              *)
(*   Result<T>   a record [ok, val, err]                                   *)
(*   String      a TLA+ string; format!() is concatenation (\o)            *)
(*   JSON value  a tagged record [t, v]; an object's v is a function from  *)
(*               field names to JSON values                                *)
(***************************************************************************)
EXTENDS Integers, Sequences, FiniteSets, TLC

VARIABLES
    messages,          \* AgentLoop.messages: the conversation history
    pc,                \* where the caller / run() stands: "idle", "loop", "exec"
    iteration,         \* run()'s local `iteration`
    llm_tools,         \* run()'s local `tool_definitions`: the schemas sent with a query
    tool_calls,        \* run()'s `tool_calls` of the reply being executed
    next_call,         \* index in tool_calls of the call the for loop is at
    result,            \* Option: execute_tool_call's `result` of the last dispatch
    returned,          \* what the last run() returned to its caller
    queries,           \* number of chat() calls issued by the current/last run
    system_prompt,     \* Option: the content last passed to set_system_prompt
    menu,              \* the calls the model on the other end asks for
    tool_definitions,  \* ToolRegistry.tool_definitions (the cache)
    builtin_tools,     \* ToolRegistry.builtin_tools (the registered names)
    def_files,         \* <user_tools_dir>/definitions: file stem -> file text
    files,             \* the working file system: path -> content
    last_call,         \* Option: the last direct call into the registry and its return
    child              \* Option: a call of execute_script in progress and its child

vars == <<messages, pc, iteration, llm_tools, tool_calls, next_call, result, returned, queries,
          system_prompt, menu, tool_definitions, builtin_tools, def_files, files,
          last_call, child>>

----------------------------------------------------------------------------
(* Bounds of the model *)

\* AgentLoop.max_iterations is 25 (agent_loop.rs:22); the model runs the same
\* loop with a smaller ceiling, and every statement is made in terms of it.
max_iterations == 2

\* the longest tool-call list a reply carries
MaxCalls == 2

\* the longest history the model lets a behaviour build
MaxMessages == 6

----------------------------------------------------------------------------
(* Option, Result *)

None == <<>>
Some(x) == <<x>>
is_some(o) == o # <<>>
is_none(o) == o = <<>>
unwrap(o) == o[1]
unwrap_or(o, d) == IF o = <<>> THEN d ELSE o[1]

Ok(v) == [ok |-> TRUE, val |-> v, err |-> <<>>]
Err(e) == [ok |-> FALSE, val |-> <<>>, err |-> e]

----------------------------------------------------------------------------
(* JSON values *)

JNull == [t |-> "null", v |-> <<>>]
JStr(s) == [t |-> "str", v |-> s]
JNum(n) == [t |-> "num", v |-> n]
JBool(b) == [t |-> "bool", v |-> b]
JObj(f) == [t |-> "obj", v |-> f]
EmptyObj == JObj(<<>>)

has_field(data, k) == data.t = "obj" /\ k \in DOMAIN data.v
field(data, k) == data.v[k]

\* a required field of type String
req_str(data, k) == has_field(data, k) /\ field(data, k).t = "str"
\* #[serde(default)] Option<T>: absent or null is None, else must have the type
opt_ok(data, k, ty) ==
    has_field(data, k) => field(data, k).t \in {"null", ty}
opt_val(data, k) ==
    IF has_field(data, k) /\ field(data, k).t # "null"
    THEN Some(field(data, k).v) ELSE None
\* #[serde(default)] T: absent takes the default, present must have the type
dflt_ok(data, k, ty) == has_field(data, k) => field(data, k).t = ty
dflt_val(data, k, d) == IF has_field(data, k) THEN field(data, k).v ELSE d

----------------------------------------------------------------------------
(* ToolResult (tools/mod.rs) *)

ToolResult_success(output) == [success |-> TRUE, output |-> output, error |-> None]
ToolResult_error(error) == [success |-> FALSE, output |-> "", error |-> Some(error)]

----------------------------------------------------------------------------
(* Strings *)

starts_with(s, p) == Len(s) >= Len(p) /\ SubSeq(s, 1, Len(p)) = p

\* str::matches(pat).count(): the non-overlapping occurrences, left to right;
\* the empty pattern matches at every boundary
RECURSIVE matches_count(_, _)
matches_count(s, pat) ==
    IF Len(pat) = 0 THEN Len(s) + 1
    ELSE IF Len(s) < Len(pat) THEN 0
    ELSE IF starts_with(s, pat)
         THEN 1 + matches_count(SubSeq(s, Len(pat) + 1, Len(s)), pat)
         ELSE matches_count(SubSeq(s, 2, Len(s)), pat)

\* str::replacen(pat, to, n)
RECURSIVE replacen(_, _, _, _)
replacen(s, pat, to, n) ==
    IF n = 0 THEN s
    ELSE IF Len(pat) = 0
    THEN to \o (IF Len(s) = 0 THEN ""
                ELSE SubSeq(s, 1, 1) \o replacen(SubSeq(s, 2, Len(s)), pat, to, n - 1))
    ELSE IF Len(s) < Len(pat) THEN s
    ELSE IF starts_with(s, pat)
         THEN to \o replacen(SubSeq(s, Len(pat) + 1, Len(s)), pat, to, n - 1)
         ELSE SubSeq(s, 1, 1) \o replacen(SubSeq(s, 2, Len(s)), pat, to, n)

\* str::replace(pat, to): every occurrence
replace(s, pat, to) == replacen(s, pat, to, Len(s) + 1)

\* str::lines(): split at "\n"; a final line ending yields no empty last line
RECURSIVE lines_acc(_, _)
lines_acc(s, cur) ==
    IF Len(s) = 0 THEN (IF cur = "" THEN <<>> ELSE <<cur>>)
    ELSE IF SubSeq(s, 1, 1) = "\n"
         THEN <<cur>> \o lines_acc(SubSeq(s, 2, Len(s)), "")
         ELSE lines_acc(SubSeq(s, 2, Len(s)), cur \o SubSeq(s, 1, 1))
lines(s) == lines_acc(s, "")

\* [String]::join(sep)
RECURSIVE join(_, _)
join(ss, sep) ==
    IF Len(ss) = 0 THEN ""
    ELSE IF Len(ss) = 1 THEN ss[1]
    ELSE ss[1] \o sep \o join(Tail(ss), sep)

\* format!("{:5}", n): right-aligned in a field of width 5
pad5(n) ==
    LET d == ToString(n)
    IN  IF Len(d) >= 5 THEN d ELSE SubSeq("     ", 1, 5 - Len(d)) \o d

----------------------------------------------------------------------------
(* The working file system, as std::fs sees it *)

fs_read_to_string(fs, path) ==
    IF path \in DOMAIN fs THEN Ok(fs[path]) ELSE Err("No such file or directory")

fs_write(fs, path, content) ==
    [p \in DOMAIN fs \cup {path} |-> IF p = path THEN content ELSE fs[p]]

\* what a tool leaves behind: its Result<ToolResult> and the file system
Outcome(res, fs) == [res |-> res, files |-> fs]

----------------------------------------------------------------------------
(* tools/file_ops.rs *)

\* serde_json::from_value::<ReadParams>
ReadParams_ok(data) ==
    /\ req_str(data, "file_path")
    /\ opt_ok(data, "offset", "num") /\ opt_ok(data, "limit", "num")
    /\ \A k \in {"offset", "limit"} : is_some(opt_val(data, k)) => unwrap(opt_val(data, k)) >= 0

\* the numbered lines ReadTool prints: skip(offset).take(limit).enumerate()
ReadTool_select(ls, offset, limit) ==
    [i \in 1..(IF Len(ls) <= offset THEN 0
               ELSE IF Len(ls) - offset < limit THEN Len(ls) - offset ELSE limit)
        |-> pad5(offset + i) \o "→" \o ls[offset + i]]

ReadTool_execute(fs, data) ==
    IF ~ReadParams_ok(data)
    THEN {Outcome(Err("Failed to parse read parameters"), fs)}
    ELSE LET file_path == field(data, "file_path").v
             content == fs_read_to_string(fs, file_path)
         IN  IF ~content.ok
             THEN {Outcome(Err("Failed to read file: " \o file_path), fs)}
             ELSE LET ls == lines(content.val)
                      offset == unwrap_or(opt_val(data, "offset"), 0)
                      limit == unwrap_or(opt_val(data, "limit"), Len(ls))
                  IN  {Outcome(Ok(ToolResult_success(
                                   join(ReadTool_select(ls, offset, limit), "\n"))), fs)}

\* serde_json::from_value::<WriteParams>
WriteParams_ok(data) == req_str(data, "file_path") /\ req_str(data, "content")

WriteTool_execute(fs, data) ==
    IF ~WriteParams_ok(data)
    THEN {Outcome(Err("Failed to parse write parameters"), fs)}
    ELSE LET file_path == field(data, "file_path").v
             content == field(data, "content").v
         IN  {Outcome(Ok(ToolResult_success(
                  "Successfully wrote " \o ToString(Len(content)) \o " bytes to " \o file_path)),
                  fs_write(fs, file_path, content))}

\* serde_json::from_value::<EditParams>
EditParams_ok(data) ==
    /\ req_str(data, "file_path") /\ req_str(data, "old_string")
    /\ req_str(data, "new_string") /\ dflt_ok(data, "replace_all", "bool")

EditTool_execute(fs, data) ==
    IF ~EditParams_ok(data)
    THEN {Outcome(Err("Failed to parse edit parameters"), fs)}
    ELSE LET file_path == field(data, "file_path").v
             old_string == field(data, "old_string").v
             new_string == field(data, "new_string").v
             replace_all == dflt_val(data, "replace_all", FALSE)
             content == fs_read_to_string(fs, file_path)
         IN  IF ~content.ok
             THEN {Outcome(Err("Failed to read file: " \o file_path), fs)}
             ELSE LET count == matches_count(content.val, old_string)
                      edited == Outcome(Ok(ToolResult_success("Successfully edited " \o file_path)),
                                        fs_write(fs, file_path,
                                            IF replace_all
                                            THEN replace(content.val, old_string, new_string)
                                            ELSE replacen(content.val, old_string, new_string, 1)))
                  IN  IF replace_all THEN {edited}
                      ELSE IF count = 0
                      THEN {Outcome(Ok(ToolResult_error(
                                "String not found in file: " \o old_string)), fs)}
                      ELSE IF count > 1
                      THEN {Outcome(Ok(ToolResult_error(
                                "String appears " \o ToString(count)
                                \o " times. Use replace_all=true or provide more context")), fs)}
                      ELSE {edited}

----------------------------------------------------------------------------
(* tools/bash.rs *)

\* serde_json::from_value::<BashParams>
BashParams_ok(data) ==
    /\ req_str(data, "command")
    /\ opt_ok(data, "description", "str")
    /\ dflt_ok(data, "timeout", "num")
    /\ has_field(data, "timeout") => field(data, "timeout").v >= 0

\* what Command::new("bash").arg("-c").arg(command).output() can give back:
\* a spawn failure, or the exit status with the captured streams
BashRuns ==
    { [spawned |-> FALSE, code |-> 0, stdout |-> "", stderr |-> ""],
      [spawned |-> TRUE, code |-> 0, stdout |-> "ok", stderr |-> ""],
      [spawned |-> TRUE, code |-> 1, stdout |-> "", stderr |-> "boom"] }

BashTool_combined(stdout, stderr) ==
    IF stdout # "" /\ stderr # ""
    THEN "STDOUT:\n" \o stdout \o "\n\nSTDERR:\n" \o stderr
    ELSE IF stdout # "" THEN stdout ELSE stderr

\* fn default_timeout, in milliseconds
default_timeout == 120000

\* the code after `.output()` for a command that ran as r says
BashTool_result(r) ==
    IF ~r.spawned
    THEN Err("Failed to execute bash command")
    ELSE IF r.code = 0
    THEN Ok(ToolResult_success(BashTool_combined(r.stdout, r.stderr)))
    ELSE Ok(ToolResult_error(
             "Command failed with exit code: Some(" \o ToString(r.code) \o ")\n"
             \o BashTool_combined(r.stdout, r.stderr)))

\* the `timeout` parameter is decoded and never read
BashTool_execute(fs, data) ==
    IF ~BashParams_ok(data)
    THEN {Outcome(Err("Failed to parse bash parameters"), fs)}
    ELSE {Outcome(BashTool_result(r), fs) : r \in BashRuns}

----------------------------------------------------------------------------
(* tools/search.rs, tools/todo.rs: decoded here, their walk of the disk is  *)
(* the environment's answer                                                 *)

GlobParams_ok(data) == req_str(data, "pattern") /\ opt_ok(data, "path", "str")

GlobTool_execute(fs, data) ==
    IF ~GlobParams_ok(data)
    THEN {Outcome(Err("Failed to parse glob parameters"), fs)}
    ELSE { Outcome(Err("Failed to parse glob pattern"), fs),
           Outcome(Ok(ToolResult_success("No files found matching the pattern")), fs),
           Outcome(Ok(ToolResult_success("Found 1 file(s):\n" \o "a.txt")), fs) }

GrepParams_ok(data) ==
    /\ req_str(data, "pattern")
    /\ opt_ok(data, "path", "str") /\ opt_ok(data, "glob", "str")
    /\ dflt_ok(data, "case_insensitive", "bool")
    /\ dflt_ok(data, "output_mode", "str")
    /\ dflt_ok(data, "context_before", "num") /\ dflt_ok(data, "context_after", "num")

GrepTool_execute(fs, data) ==
    IF ~GrepParams_ok(data)
    THEN {Outcome(Err("Failed to parse grep parameters"), fs)}
    ELSE { Outcome(Err("Failed to compile regex pattern"), fs),
           Outcome(Ok(ToolResult_success("No matches found")), fs),
           Outcome(Ok(ToolResult_success("a.txt")), fs) }

TodoParams_ok(data) ==
    /\ data.t = "obj"
    /\ opt_ok(data, "todos", "arr") /\ opt_ok(data, "action", "str")

TodoTool_execute(fs, data) ==
    IF ~TodoParams_ok(data)
    THEN {Outcome(Err("Failed to parse todo parameters"), fs)}
    ELSE IF opt_val(data, "action") = Some("read") \/ is_none(opt_val(data, "todos"))
    THEN { Outcome(Ok(ToolResult_success("No todos found")), fs),
           Outcome(Ok(ToolResult_success("Current todos:\n\n")), fs),
           Outcome(Err("todo file unreadable"), fs) }
    ELSE { Outcome(Ok(ToolResult_success("Current todos:\n\n")), fs),
           Outcome(Err("todo file unwritable"), fs) }

----------------------------------------------------------------------------
(* serde_json::from_str on the texts the model uses: tool-call arguments,   *)
(* definition files and script output. A text outside the table is not JSON *)

ARGS_EMPTY == "{}"
ARGS_LS == "{\"command\":\"ls\"}"
ARGS_NOFILE == "{\"file_path\":\"nofile\"}"
ARGS_AFILE == "{\"file_path\":\"a.txt\"}"
ARGS_NUMPATH == "{\"file_path\":7}"
ARGS_EDIT_NOFILE == "{\"file_path\":\"nofile\",\"old_string\":\"x\",\"new_string\":\"y\"}"
ARGS_TRUNCATED == "{\"file_path\":"

DEF_DEPLOY ==
    "{\"name\":\"deploy\",\"description\":\"d\",\"parameters\":{},"
    \o "\"implementation_type\":\"script\",\"script_path\":\"deploy.sh\"}"

\* more definition files: a second definition of the name "deploy", a script
\* definition of the builtin name "read", a script without a path, a remote
\* tool with its endpoint, one with an empty endpoint, and a text cut short
DEF_DEPLOY_V2 ==
    "{\"name\":\"deploy\",\"description\":\"d2\",\"parameters\":{},"
    \o "\"implementation_type\":\"script\",\"script_path\":\"/opt/deploy2.sh\"}"
DEF_READ_SCRIPT ==
    "{\"name\":\"read\",\"description\":\"r\",\"parameters\":{},"
    \o "\"implementation_type\":\"script\",\"script_path\":\"~/read.sh\"}"
DEF_NO_PATH ==
    "{\"name\":\"nopath\",\"description\":\"n\",\"parameters\":{},"
    \o "\"implementation_type\":\"script\"}"
DEF_LOOKUP ==
    "{\"name\":\"lookup\",\"description\":\"l\",\"parameters\":{},"
    \o "\"implementation_type\":\"mcp_server\",\"server_url\":\"http://mcp\"}"
DEF_EMPTY_URL ==
    "{\"name\":\"lookup\",\"description\":\"l\",\"parameters\":{},"
    \o "\"implementation_type\":\"mcp_server\",\"server_url\":\"\"}"
DEF_CUT == "{\"name\":"
\* no implementation_type: the default applies
DEF_PLAIN == "{\"name\":\"plain\",\"description\":\"p\",\"parameters\":{}}"

OUT_FAILED_NO_ERROR == "{\"success\":false,\"output\":\"partial\"}"
OUT_PLAIN == "done"

JsonTable ==
    (ARGS_EMPTY :> EmptyObj)
    @@ (ARGS_LS :> JObj([command |-> JStr("ls")]))
    @@ (ARGS_NOFILE :> JObj([file_path |-> JStr("nofile")]))
    @@ (ARGS_AFILE :> JObj([file_path |-> JStr("a.txt")]))
    @@ (ARGS_NUMPATH :> JObj([file_path |-> JNum(7)]))
    @@ (ARGS_EDIT_NOFILE :> JObj([file_path |-> JStr("nofile"),
                                  old_string |-> JStr("x"), new_string |-> JStr("y")]))
    @@ (DEF_DEPLOY :> JObj([name |-> JStr("deploy"), description |-> JStr("d"),
                            parameters |-> EmptyObj,
                            implementation_type |-> JStr("script"),
                            script_path |-> JStr("deploy.sh")]))
    @@ (DEF_DEPLOY_V2 :> JObj([name |-> JStr("deploy"), description |-> JStr("d2"),
                               parameters |-> EmptyObj,
                               implementation_type |-> JStr("script"),
                               script_path |-> JStr("/opt/deploy2.sh")]))
    @@ (DEF_READ_SCRIPT :> JObj([name |-> JStr("read"), description |-> JStr("r"),
                                 parameters |-> EmptyObj,
                                 implementation_type |-> JStr("script"),
                                 script_path |-> JStr("~/read.sh")]))
    @@ (DEF_NO_PATH :> JObj([name |-> JStr("nopath"), description |-> JStr("n"),
                             parameters |-> EmptyObj,
                             implementation_type |-> JStr("script")]))
    @@ (DEF_LOOKUP :> JObj([name |-> JStr("lookup"), description |-> JStr("l"),
                            parameters |-> EmptyObj,
                            implementation_type |-> JStr("mcp_server"),
                            server_url |-> JStr("http://mcp")]))
    @@ (DEF_EMPTY_URL :> JObj([name |-> JStr("lookup"), description |-> JStr("l"),
                               parameters |-> EmptyObj,
                               implementation_type |-> JStr("mcp_server"),
                               server_url |-> JStr("")]))
    @@ (DEF_PLAIN :> JObj([name |-> JStr("plain"), description |-> JStr("p"),
                           parameters |-> EmptyObj]))
    @@ (OUT_FAILED_NO_ERROR :> JObj([success |-> JBool(FALSE), output |-> JStr("partial")]))

from_str(text) ==
    IF text \in DOMAIN JsonTable THEN Ok(JsonTable[text]) ELSE Err("expected value")

\* serde: Deserialize for ToolResult (tools/mod.rs)
ToolResult_from_value(data) ==
    IF /\ has_field(data, "success") /\ field(data, "success").t = "bool"
       /\ req_str(data, "output") /\ opt_ok(data, "error", "str")
    THEN Ok([success |-> field(data, "success").v,
             output |-> field(data, "output").v,
             error |-> opt_val(data, "error")])
    ELSE Err("invalid ToolResult")

----------------------------------------------------------------------------
(* tools/definition.rs *)

ImplementationType == {"builtin", "script", "mcp_server"}

ToolDefinition(name, ty, script_path, server_url, timeout_ms) ==
    [name |-> name, implementation_type |-> ty, script_path |-> script_path,
     server_url |-> server_url, timeout_ms |-> timeout_ms]

default_implementation_type == "builtin"

\* serde: Deserialize for ToolDefinition
ToolDefinition_from_value(data) ==
    IF /\ req_str(data, "name") /\ req_str(data, "description")
       /\ has_field(data, "parameters")
       /\ dflt_ok(data, "implementation_type", "str")
       /\ dflt_val(data, "implementation_type", default_implementation_type)
              \in ImplementationType
       /\ opt_ok(data, "script_path", "str") /\ opt_ok(data, "server_url", "str")
       /\ opt_ok(data, "timeout_ms", "num")
    THEN Ok(ToolDefinition(field(data, "name").v,
                dflt_val(data, "implementation_type", default_implementation_type),
                opt_val(data, "script_path"), opt_val(data, "server_url"),
                opt_val(data, "timeout_ms")))
    ELSE Err("invalid ToolDefinition")

\* a validation that accepts every definition
validate_nothing(def) == Ok(<<>>)

validate(def) ==
    CASE def.implementation_type = "builtin" -> Ok(<<>>)
      [] def.implementation_type = "script" ->
            IF is_none(def.script_path)
            THEN Err("Tool '" \o def.name
                     \o "' has implementation_type 'script' but no script_path")
            ELSE Ok(<<>>)
      [] def.implementation_type = "mcp_server" ->
            IF is_none(def.server_url)
            THEN Err("Tool '" \o def.name
                     \o "' has implementation_type 'mcp_server' but no server_url")
            ELSE Ok(<<>>)

\* ToolRegistry.user_tools_dir: <home>/.code_agent/tools
user_tools_dir == Some("/home/u/.code_agent/tools")

\* from_file for the file <tools_dir>/definitions/<stem>.json; `dir` holds the
\* directory's files by stem. The parent of the parent of the path is tools_dir
resolve_script_path_always(tools_dir, d) ==
    IF is_some(d.script_path)
    THEN [d EXCEPT !.script_path = Some(tools_dir \o "/scripts/" \o unwrap(d.script_path))]
    ELSE d

resolve_script_path(tools_dir, d) ==
    IF /\ is_some(d.script_path)
       /\ ~starts_with(unwrap(d.script_path), "/")
       /\ ~starts_with(unwrap(d.script_path), "~")
    THEN [d EXCEPT !.script_path = Some(tools_dir \o "/scripts/" \o unwrap(d.script_path))]
    ELSE d

\* `def.validate()?; Ok(def)`
validated(def, v) == IF v.ok THEN Ok(def) ELSE v

\* from_file once the file's text went through serde_json::from_str
from_file_parsed(tools_dir, stem, json) ==
    IF ~json.ok \/ ~ToolDefinition_from_value(json.val).ok
    THEN Err("Failed to parse tool definition from " \o stem)
    ELSE validated(resolve_script_path(tools_dir, ToolDefinition_from_value(json.val).val),
                   validate(resolve_script_path(tools_dir,
                                ToolDefinition_from_value(json.val).val)))

from_file(tools_dir, dir, stem) ==
    IF stem \notin DOMAIN dir
    THEN Err("Failed to read tool definition from " \o stem)
    ELSE from_file_parsed(tools_dir, stem, from_str(dir[stem]))

----------------------------------------------------------------------------
(* tools/executors.rs *)

\* default of timeout_ms, in both strategies (executors.rs:50, :91)
DEFAULT_TIMEOUT_MS == 120000

\* shellexpand::tilde
tilde(path) ==
    IF path = "~" THEN "/home/u"
    ELSE IF starts_with(path, "~/") THEN "/home/u" \o SubSeq(path, 2, Len(path))
    ELSE path

\* the executables present on disk
ScriptsOnDisk == {"/home/u/.code_agent/tools/scripts/deploy.sh"}

\* what a spawned script can do: fail to spawn, be gone before the parameters
\* are written to its standard input (the write fails with a broken pipe), exit
\* with a status and its two streams before the timeout, or still run when the
\* timeout elapses
BROKEN_PIPE == "Broken pipe (os error 32)"

ScriptRuns ==
    { [spawned |-> FALSE, piped |-> FALSE, exited |-> FALSE, code |-> 0, stdout |-> "", stderr |-> ""],
      [spawned |-> TRUE, piped |-> FALSE, exited |-> TRUE, code |-> 3, stdout |-> "half", stderr |-> "bad"],
      [spawned |-> TRUE, piped |-> TRUE, exited |-> TRUE, code |-> 0, stdout |-> OUT_FAILED_NO_ERROR, stderr |-> ""],
      [spawned |-> TRUE, piped |-> TRUE, exited |-> TRUE, code |-> 0, stdout |-> OUT_PLAIN, stderr |-> "warn"],
      [spawned |-> TRUE, piped |-> TRUE, exited |-> TRUE, code |-> 3, stdout |-> "half", stderr |-> "bad"],
      [spawned |-> TRUE, piped |-> TRUE, exited |-> FALSE, code |-> 0, stdout |-> "", stderr |-> ""] }

\* the code after the existence check, for a run that got as far as r says
execute_script_result(script_path, r, timeout_ms) ==
    IF ~r.spawned THEN Err("Failed to spawn script " \o script_path)
    ELSE IF ~r.piped THEN Err(BROKEN_PIPE)
    ELSE IF r.exited
    THEN IF r.code = 0
         THEN LET json == from_str(r.stdout)
                  parsed == IF json.ok THEN ToolResult_from_value(json.val) ELSE json
              IN  IF parsed.ok THEN Ok(parsed.val) ELSE Ok(ToolResult_success(r.stdout))
         ELSE Ok(ToolResult_error("Script exited with code " \o ToString(r.code)
                                  \o ": " \o r.stderr))
    ELSE Ok(ToolResult_error("Script execution timed out after "
                             \o ToString(unwrap_or(timeout_ms, DEFAULT_TIMEOUT_MS)) \o "ms"))

\* the spawn attempted without looking whether the path exists
execute_script_unchecked(fs, script_path, data, timeout_ms) ==
    {Outcome(execute_script_result(script_path, r, timeout_ms), fs) : r \in ScriptRuns}

execute_script(fs, script_path, data, timeout_ms) ==
    IF tilde(script_path) \notin ScriptsOnDisk
    THEN {Outcome(Ok(ToolResult_error("Script not found: " \o script_path)), fs)}
    ELSE {Outcome(execute_script_result(script_path, r, timeout_ms), fs) : r \in ScriptRuns}

\* what the POST to the endpoint can give back: no response (connection
\* failure or the client's timeout), or a status with a body
ERROR_BODY == "{\"jsonrpc\":\"2.0\",\"error\":{\"message\":\"denied\"},\"id\":1}"
RESULT_BODY == "{\"jsonrpc\":\"2.0\",\"result\":{\"success\":true,\"output\":\"remote\"},\"id\":1}"
NO_RESULT_BODY == "{\"jsonrpc\":\"2.0\",\"id\":1}"

McpBodies ==
    (ERROR_BODY :> JObj([jsonrpc |-> JStr("2.0"), id |-> JNum(1),
                         error |-> JObj([message |-> JStr("denied")])]))
    @@ (RESULT_BODY :> JObj([jsonrpc |-> JStr("2.0"), id |-> JNum(1),
                             result |-> JObj([success |-> JBool(TRUE),
                                              output |-> JStr("remote")])]))
    @@ (NO_RESULT_BODY :> JObj([jsonrpc |-> JStr("2.0"), id |-> JNum(1)]))

\* reqwest's error when the client's timeout elapses before the response, and
\* when nothing listens at the endpoint
MCP_TIMED_OUT == "operation timed out"
MCP_REFUSED == "connection refused"

McpReplies ==
    { [answered |-> FALSE, failure |-> MCP_TIMED_OUT, status |-> 0, body |-> ""],
      [answered |-> FALSE, failure |-> MCP_REFUSED, status |-> 0, body |-> ""],
      [answered |-> TRUE, failure |-> "", status |-> 500, body |-> "oops"],
      [answered |-> TRUE, failure |-> "", status |-> 200, body |-> "<html>"],
      [answered |-> TRUE, failure |-> "", status |-> 200, body |-> ERROR_BODY],
      [answered |-> TRUE, failure |-> "", status |-> 200, body |-> RESULT_BODY],
      [answered |-> TRUE, failure |-> "", status |-> 200, body |-> NO_RESULT_BODY] }

execute_mcp_server_result(r) ==
    IF ~r.answered THEN Err("MCP server request failed: " \o r.failure)
    ELSE IF ~(r.status >= 200 /\ r.status < 300)
    THEN Ok(ToolResult_error("MCP server returned status " \o ToString(r.status)
                             \o ": " \o r.body))
    ELSE IF r.body \notin DOMAIN McpBodies THEN Err("error decoding response body")
    ELSE LET mcp_response == McpBodies[r.body]
         IN  IF has_field(mcp_response, "error")
             THEN LET error == field(mcp_response, "error")
                  IN  Ok(ToolResult_error("MCP server error: " \o
                          (IF req_str(error, "message") THEN field(error, "message").v
                           ELSE "unknown error")))
             ELSE IF has_field(mcp_response, "result")
             THEN LET parsed == ToolResult_from_value(field(mcp_response, "result"))
                  IN  IF parsed.ok THEN Ok(parsed.val)
                      ELSE Ok(ToolResult_success("<result>"))
             ELSE Ok(ToolResult_error("MCP server response missing result field"))

execute_mcp_server(fs, server_url, tool_name, data, timeout_ms) ==
    {Outcome(execute_mcp_server_result(r), fs) : r \in McpReplies}

----------------------------------------------------------------------------
(* agent/tool_registry.rs *)

\* a construction that leaves the todo tool out
BuiltinNames_without_todo == {"read", "write", "edit", "glob", "grep", "bash"}

BuiltinNames == {"read", "write", "edit", "glob", "grep", "bash", "todo"}

\* register_builtin_definitions
builtin_definitions ==
    [n \in BuiltinNames |-> ToolDefinition(n, "builtin", None, None, None)]

\* get_tool_definitions: the schema (named by the definition's name) of every
\* definition in the cache
get_tool_definitions(defs) == {defs[n].name : n \in DOMAIN defs}

\* the closures register_builtin stores, by name
builtin_call(name, fs, data) ==
    CASE name = "read" -> ReadTool_execute(fs, data)
      [] name = "write" -> WriteTool_execute(fs, data)
      [] name = "edit" -> EditTool_execute(fs, data)
      [] name = "glob" -> GlobTool_execute(fs, data)
      [] name = "grep" -> GrepTool_execute(fs, data)
      [] name = "bash" -> BashTool_execute(fs, data)
      [] name = "todo" -> TodoTool_execute(fs, data)

\* `self.tool_definitions.insert(name, def)` when the file loaded, `?` otherwise
insert_loaded(defs, name, def) ==
    IF def.ok
    THEN [res |-> def, defs |-> (name :> def.val) @@ defs]
    ELSE [res |-> def, defs |-> defs]

\* the cache lookup that loads the file on a miss but does not keep it
get_tool_definition_uncached(defs, dir, name) ==
    IF name \in DOMAIN defs
    THEN [res |-> Ok(defs[name]), defs |-> defs]
    ELSE IF is_some(user_tools_dir) /\ name \in DOMAIN dir
    THEN [res |-> from_file(unwrap(user_tools_dir), dir, name), defs |-> defs]
    ELSE [res |-> Err("Tool definition not found: " \o name), defs |-> defs]

\* the file consulted before the cache
get_tool_definition_file_first(defs, dir, name) ==
    IF is_some(user_tools_dir) /\ name \in DOMAIN dir
    THEN insert_loaded(defs, name, from_file(unwrap(user_tools_dir), dir, name))
    ELSE IF name \in DOMAIN defs
    THEN [res |-> Ok(defs[name]), defs |-> defs]
    ELSE [res |-> Err("Tool definition not found: " \o name), defs |-> defs]

\* get_tool_definition: [res |-> Result<ToolDefinition>, defs |-> the cache after]
get_tool_definition(defs, dir, name) ==
    IF name \in DOMAIN defs
    THEN [res |-> Ok(defs[name]), defs |-> defs]
    ELSE IF is_some(user_tools_dir) /\ name \in DOMAIN dir
    THEN insert_loaded(defs, name, from_file(unwrap(user_tools_dir), dir, name))
    ELSE [res |-> Err("Tool definition not found: " \o name), defs |-> defs]

\* an outcome of the dispatch, with the cache get_tool_definition left
with_defs(defs, outs) ==
    {[res |-> o.res, files |-> o.files, defs |-> defs] : o \in outs}

\* every definition taken for a builtin
execute_tool_match_builtin_only(def, builtins, fs, name, data) ==
    IF name \notin builtins
    THEN {Outcome(Err("Builtin tool not found: " \o name), fs)}
    ELSE builtin_call(name, fs, data)

\* the match on def.implementation_type
execute_tool_match(def, builtins, fs, name, data) ==
    CASE def.implementation_type = "builtin" ->
            IF name \notin builtins
            THEN {Outcome(Err("Builtin tool not found: " \o name), fs)}
            ELSE builtin_call(name, fs, data)
      [] def.implementation_type = "script" ->
            IF is_none(def.script_path)
            THEN {Outcome(Err("Script tool missing script_path"), fs)}
            ELSE execute_script(fs, unwrap(def.script_path), data, def.timeout_ms)
      [] def.implementation_type = "mcp_server" ->
            IF is_none(def.server_url)
            THEN {Outcome(Err("MCP tool missing server_url"), fs)}
            ELSE execute_mcp_server(fs, unwrap(def.server_url), name, data,
                                    def.timeout_ms)

\* a name that does not resolve reported as a failed call
execute_tool_got_reporting(got, builtins, fs, name, data) ==
    IF ~got.res.ok THEN with_defs(got.defs, {Outcome(Ok(ToolResult_error(got.res.err)), fs)})
    ELSE with_defs(got.defs, execute_tool_match(got.res.val, builtins, fs, name, data))

\* execute_tool after `self.get_tool_definition(name)` returned `got`
execute_tool_got(got, builtins, fs, name, data) ==
    IF ~got.res.ok THEN with_defs(got.defs, {Outcome(got.res, fs)})
    ELSE with_defs(got.defs, execute_tool_match(got.res.val, builtins, fs, name, data))

\* execute_tool: the set of [res, files, defs] the dispatch can end in
execute_tool(defs, builtins, dir, fs, name, data) ==
    execute_tool_got(get_tool_definition(defs, dir, name), builtins, fs, name, data)

\* the orders read_dir can list the .json files of the directory in
Orders(S) ==
    {o \in [1..Cardinality(S) -> S] : \A i, j \in 1..Cardinality(S) : o[i] = o[j] => i = j}

\* one entry of the directory: Ok(def) is pushed and inserted under def.name,
\* Err is a warning on stderr
discover_entry(acc, def) ==
    IF def.ok
    THEN [defs |-> (def.val.name :> def.val) @@ acc.defs,
          discovered |-> Append(acc.discovered, def.val.name)]
    ELSE acc

RECURSIVE discover_entries(_, _, _)
discover_entries(acc, dir, order) ==
    IF order = <<>> THEN acc
    ELSE discover_entries(
             discover_entry(acc, from_file(unwrap(user_tools_dir), dir, Head(order))),
             dir, Tail(order))

discover_return(acc) == [res |-> Ok(acc.discovered), defs |-> acc.defs]

\* a discovery that gives up with an error when a file of the directory does not load
discover_user_tools_all_or_nothing(defs, dir) ==
    IF \E stem \in DOMAIN dir : ~from_file(unwrap(user_tools_dir), dir, stem).ok
    THEN {[res |-> Err("Failed to load tool"), defs |-> defs]}
    ELSE { discover_return(discover_entries([defs |-> defs, discovered |-> <<>>], dir, order))
           : order \in Orders(DOMAIN dir) }

\* discover_user_tools: the set of [res |-> Result<Vec<String>>, defs |-> cache after].
\* `dir` holds the .json files of an existing definitions directory
discover_user_tools(defs, dir) ==
    IF is_none(user_tools_dir) THEN {[res |-> Ok(<<>>), defs |-> defs]}
    ELSE { discover_return(discover_entries([defs |-> defs, discovered |-> <<>>], dir, order))
           : order \in Orders(DOMAIN dir) }

----------------------------------------------------------------------------
(* agent/llm_client.rs: Message, ToolCall *)

Message(role, content, calls, id) ==
    [role |-> role, content |-> content, tool_calls |-> calls, tool_call_id |-> id]

ToolCall(id, name, arguments) ==
    [id |-> id, tool_type |-> "function",
     function |-> [name |-> name, arguments |-> arguments]]

----------------------------------------------------------------------------
(* What the environment supplies *)

SystemPrompts == {"be brief"}
UserPrompts == {"fix it"}

\* the <<tool name, arguments text>> pairs the model asks for
CallMenu ==
    { <<"bash", ARGS_LS>>,
      <<"read", ARGS_NOFILE>>,
      <<"edit", ARGS_EDIT_NOFILE>>,
      <<"read", ARGS_TRUNCATED>>,
      <<"read", ARGS_NUMPATH>>,
      <<"nope", ARGS_EMPTY>>,
      <<"deploy", ARGS_EMPTY>> }

\* ids are transport-assigned and unique within one assistant turn
ToolCallId(j) == "call_" \o ToString(j)

\* one behaviour follows a model that asks for one or two kinds of call
Menus == { {a, b} : a, b \in CallMenu }

CallLists(m) ==
    UNION { { [j \in 1..n |-> ToolCall(ToolCallId(j), c[j][1], c[j][2])]
              : c \in [1..n -> m] } : n \in 0..MaxCalls }

\* the assistant messages chat() can deserialize: tool_calls absent, or a list
\* (possibly empty) of requests
FinalReplies == { Message("assistant", "done", None, None) }
ToolReplies(m) == { Message("assistant", "", Some(calls), None) : calls \in CallLists(m) }

----------------------------------------------------------------------------
(* agent/agent_loop.rs *)

MaxIterationsError == "Maximum iterations (" \o ToString(max_iterations) \o ") exceeded"
TransportError == "Failed to get LLM response"
ArgumentsError(arguments) == "Failed to parse tool arguments: " \o arguments

Init ==
    /\ messages = <<>>
    /\ pc = "idle"
    /\ iteration = 0
    /\ llm_tools = {}
    /\ tool_calls = <<>>
    /\ next_call = 1
    /\ result = None
    /\ returned = None
    /\ queries = 0
    /\ system_prompt = None
    /\ menu \in Menus
    /\ tool_definitions = builtin_definitions
    /\ builtin_tools = BuiltinNames
    /\ def_files = ("deploy" :> DEF_DEPLOY)
    /\ files = ("a.txt" :> "x\ny")
    /\ last_call = None
    /\ child = None

\* untouched by the agent loop: the registry called directly, a script call on its own
direct_vars == <<last_call, child>>
registry_vars == <<menu, tool_definitions, builtin_tools, def_files, files>>
\* run()'s locals go out of scope when it returns
locals_dropped ==
    /\ iteration' = 0
    /\ llm_tools' = {}
    /\ tool_calls' = <<>>
    /\ next_call' = 1
    /\ result' = None

\* the system message put in front of the history instead of pushed
set_system_prompt_first(prompt) ==
    /\ pc = "idle"
    /\ Len(messages) < MaxMessages
    /\ messages' = <<Message("system", prompt, None, None)>> \o messages
    /\ system_prompt' = Some(prompt)
    /\ returned' = None
    /\ queries' = 0
    /\ UNCHANGED <<pc, iteration, llm_tools, tool_calls, next_call, result, registry_vars, direct_vars>>

set_system_prompt(prompt) ==
    /\ pc = "idle"
    /\ Len(messages) < MaxMessages
    /\ messages' = Append(messages, Message("system", prompt, None, None))
    /\ system_prompt' = Some(prompt)
    /\ returned' = None
    /\ queries' = 0
    /\ UNCHANGED <<pc, iteration, llm_tools, tool_calls, next_call, result, registry_vars, direct_vars>>

\* the counter kept across runs: it starts from the replies already in the history
run_counting_on(user_prompt) ==
    /\ pc = "idle"
    /\ Len(messages) < MaxMessages
    /\ messages' = Append(messages, Message("user", user_prompt, None, None))
    /\ iteration' = Cardinality({i \in 1..Len(messages) : messages[i].role = "assistant"})
    /\ llm_tools' = get_tool_definitions(tool_definitions)
    /\ queries' = 0
    /\ returned' = None
    /\ result' = None
    /\ pc' = "loop"
    /\ UNCHANGED <<tool_calls, next_call, system_prompt, registry_vars, direct_vars>>

\* run(), up to the loop: push the user message, iteration = 0, and take the
\* registry's schemas
run(user_prompt) ==
    /\ pc = "idle"
    /\ Len(messages) < MaxMessages
    /\ messages' = Append(messages, Message("user", user_prompt, None, None))
    /\ iteration' = 0
    /\ llm_tools' = get_tool_definitions(tool_definitions)
    /\ queries' = 0
    /\ returned' = None
    /\ result' = None
    /\ pc' = "loop"
    /\ UNCHANGED <<tool_calls, next_call, system_prompt, registry_vars, direct_vars>>

\* no ceiling at all
iteration_exceeded_never(it) == FALSE

\* the ceiling test off by one: bails on the pass that reaches the ceiling
iteration_exceeded_inclusive(it) == it >= max_iterations

\* `if iteration > self.max_iterations`, after `iteration += 1`
iteration_exceeded(it) == it > max_iterations

\* loop head, ceiling reached: bail
run_bail ==
    /\ pc = "loop"
    /\ iteration_exceeded(iteration + 1)
    /\ returned' = Some(Err(MaxIterationsError))
    /\ pc' = "idle"
    /\ locals_dropped
    /\ UNCHANGED <<messages, queries, system_prompt, registry_vars, direct_vars>>

\* a failed chat() swallowed: the pass is spent and the loop goes round again
run_chat_err_retrying ==
    /\ pc = "loop"
    /\ ~iteration_exceeded(iteration + 1)
    /\ queries' = queries + 1
    /\ iteration' = iteration + 1
    /\ UNCHANGED <<messages, pc, llm_tools, tool_calls, next_call, result, returned,
                   system_prompt, registry_vars, direct_vars>>

\* a failed chat() that takes the history back with it
run_chat_err_forgetting ==
    /\ pc = "loop"
    /\ ~iteration_exceeded(iteration + 1)
    /\ queries' = queries + 1
    /\ returned' = Some(Err(TransportError))
    /\ pc' = "idle"
    /\ messages' = <<>>
    /\ locals_dropped
    /\ UNCHANGED <<system_prompt, registry_vars, direct_vars>>

\* loop head, then chat() fails: `?` returns the error
run_chat_err ==
    /\ pc = "loop"
    /\ ~iteration_exceeded(iteration + 1)
    /\ queries' = queries + 1
    /\ returned' = Some(Err(TransportError))
    /\ pc' = "idle"
    /\ locals_dropped
    /\ UNCHANGED <<messages, system_prompt, registry_vars, direct_vars>>

\* loop head, then chat() answers `response`
run_chat_ok(response) ==
    /\ pc = "loop"
    /\ ~iteration_exceeded(iteration + 1)
    /\ queries' = queries + 1
    /\ messages' = Append(messages, response)
    /\ IF is_some(response.tool_calls)
       THEN /\ Len(messages) + 1 + Len(unwrap(response.tool_calls)) <= MaxMessages
            /\ iteration' = iteration + 1
            /\ tool_calls' = unwrap(response.tool_calls)
            /\ next_call' = 1
            /\ pc' = IF Len(unwrap(response.tool_calls)) = 0 THEN "loop" ELSE "exec"
            /\ UNCHANGED <<returned, result, llm_tools>>
       ELSE /\ Len(messages) < MaxMessages
            /\ returned' = Some(Ok(response.content))
            /\ pc' = "idle"
            /\ locals_dropped
    /\ UNCHANGED <<system_prompt, registry_vars, direct_vars>>

\* the failure recorded without its prefix
result_content_unprefixed(r) ==
    IF r.success THEN r.output ELSE unwrap_or(r.error, "Unknown error")

\* the content of the `tool` message for a ToolResult
result_content(r) ==
    IF r.success THEN r.output
    ELSE "Error: " \o unwrap_or(r.error, "Unknown error")

\* a ToolResult with success = false propagated like an Err
execute_tool_call_failing_aborts ==
    /\ pc = "exec"
    /\ LET tool_call == tool_calls[next_call]
           tool_name == tool_call.function.name
           arguments == tool_call.function.arguments
           args == from_str(arguments)
       IN  IF ~args.ok
           THEN /\ returned' = Some(Err(ArgumentsError(arguments)))
                /\ pc' = "idle"
                /\ locals_dropped
                /\ UNCHANGED <<messages, tool_definitions, files>>
           ELSE \E o \in execute_tool(tool_definitions, builtin_tools, def_files, files,
                                      tool_name, args.val) :
                    /\ tool_definitions' = o.defs
                    /\ files' = o.files
                    /\ IF ~o.res.ok \/ ~o.res.val.success
                       THEN /\ returned' = Some(Err(IF o.res.ok
                                                    THEN unwrap_or(o.res.val.error, "Unknown error")
                                                    ELSE o.res.err))
                            /\ pc' = "idle"
                            /\ locals_dropped
                            /\ UNCHANGED messages
                       ELSE /\ result' = Some(o.res)
                            /\ messages' = Append(messages,
                                   Message("tool", result_content(o.res.val), None,
                                           Some(tool_call.id)))
                            /\ next_call' = next_call + 1
                            /\ pc' = IF next_call < Len(tool_calls) THEN "exec" ELSE "loop"
                            /\ UNCHANGED <<returned, iteration, llm_tools, tool_calls>>
    /\ UNCHANGED <<queries, system_prompt, menu, builtin_tools, def_files, direct_vars>>

\* arguments that are not JSON recorded as a failed call, the turn going on
execute_tool_call_lenient ==
    /\ pc = "exec"
    /\ LET tool_call == tool_calls[next_call]
           tool_name == tool_call.function.name
           arguments == tool_call.function.arguments
           args == from_str(arguments)
       IN  IF ~args.ok
           THEN /\ result' = Some(Ok(ToolResult_error(ArgumentsError(arguments))))
                /\ messages' = Append(messages,
                       Message("tool", "Error: " \o ArgumentsError(arguments), None,
                               Some(tool_call.id)))
                /\ next_call' = next_call + 1
                /\ pc' = IF next_call < Len(tool_calls) THEN "exec" ELSE "loop"
                /\ UNCHANGED <<returned, iteration, llm_tools, tool_calls, tool_definitions, files>>
           ELSE \E o \in execute_tool(tool_definitions, builtin_tools, def_files, files,
                                      tool_name, args.val) :
                    /\ tool_definitions' = o.defs
                    /\ files' = o.files
                    /\ IF ~o.res.ok
                       THEN /\ returned' = Some(Err(o.res.err))
                            /\ pc' = "idle"
                            /\ locals_dropped
                            /\ UNCHANGED messages
                       ELSE /\ result' = Some(o.res)
                            /\ messages' = Append(messages,
                                   Message("tool", result_content(o.res.val), None,
                                           Some(tool_call.id)))
                            /\ next_call' = next_call + 1
                            /\ pc' = IF next_call < Len(tool_calls) THEN "exec" ELSE "loop"
                            /\ UNCHANGED <<returned, iteration, llm_tools, tool_calls>>
    /\ UNCHANGED <<queries, system_prompt, menu, builtin_tools, def_files, direct_vars>>

\* the call started and not waited for: the for loop moves on without its result
execute_tool_call_detached ==
    /\ pc = "exec"
    /\ next_call' = next_call + 1
    /\ pc' = IF next_call < Len(tool_calls) THEN "exec" ELSE "loop"
    /\ UNCHANGED <<messages, iteration, llm_tools, tool_calls, result, returned, queries,
                   system_prompt, registry_vars, direct_vars>>

\* one pass of `for tool_call in tool_calls { self.execute_tool_call(tool_call).await?; }`
execute_tool_call ==
    /\ pc = "exec"
    /\ LET tool_call == tool_calls[next_call]
           tool_name == tool_call.function.name
           arguments == tool_call.function.arguments
           args == from_str(arguments)
       IN  IF ~args.ok
           THEN /\ returned' = Some(Err(ArgumentsError(arguments)))
                /\ pc' = "idle"
                /\ locals_dropped
                /\ UNCHANGED <<messages, tool_definitions, files>>
           ELSE \E o \in execute_tool(tool_definitions, builtin_tools, def_files, files,
                                      tool_name, args.val) :
                    /\ tool_definitions' = o.defs
                    /\ files' = o.files
                    /\ IF ~o.res.ok
                       THEN /\ returned' = Some(Err(o.res.err))
                            /\ pc' = "idle"
                            /\ locals_dropped
                            /\ UNCHANGED messages
                       ELSE /\ result' = Some(o.res)
                            /\ messages' = Append(messages,
                                   Message("tool", result_content(o.res.val), None,
                                           Some(tool_call.id)))
                            /\ next_call' = next_call + 1
                            /\ pc' = IF next_call < Len(tool_calls) THEN "exec" ELSE "loop"
                            /\ UNCHANGED <<returned, iteration, llm_tools, tool_calls>>
    /\ UNCHANGED <<queries, system_prompt, menu, builtin_tools, def_files, direct_vars>>

clear_history ==
    /\ pc = "idle"
    /\ messages' = <<>>
    /\ returned' = None
    /\ queries' = 0
    /\ UNCHANGED <<pc, iteration, llm_tools, tool_calls, next_call, result, system_prompt, registry_vars, direct_vars>>

Next ==
    \/ \E prompt \in SystemPrompts : set_system_prompt(prompt)
    \/ \E user_prompt \in UserPrompts : run(user_prompt)
    \/ run_bail
    \/ run_chat_err
    \/ \E response \in FinalReplies \cup ToolReplies(menu) : run_chat_ok(response)
    \/ execute_tool_call
    \/ clear_history

Spec == Init /\ [][Next]_vars

----------------------------------------------------------------------------
(* Reading a history *)

IsPrefix(s, t) == Len(s) <= Len(t) /\ SubSeq(t, 1, Len(s)) = s
Last(s) == s[Len(s)]
Max(S) == CHOOSE x \in S : \A y \in S : y <= x
Min(S) == CHOOSE x \in S : \A y \in S : x <= y

is_tool(m) == m.role = "tool"
is_assistant(m) == m.role = "assistant"
\* the requests an assistant message carries: none when tool_calls is absent
calls_of(m) == IF is_some(m.tool_calls) THEN unwrap(m.tool_calls) ELSE <<>>

AssistantIdx(h) == {i \in 1..Len(h) : is_assistant(h[i])}
\* the index of the assistant message after position a, or one past the end
NextAssistant(h, a) ==
    LET later == {j \in AssistantIdx(h) : j > a}
    IN  IF later = {} THEN Len(h) + 1 ELSE Min(later)
\* the back-references of the tool messages between assistant message a and the next
Answers(h, a) ==
    LET tools == SelectSeq(SubSeq(h, a + 1, NextAssistant(h, a) - 1), is_tool)
    IN  [k \in 1..Len(tools) |-> tools[k].tool_call_id]
Requested(h, a) ==
    LET calls == calls_of(h[a])
    IN  [k \in 1..Len(calls) |-> Some(calls[k].id)]

\* every tool message answers exactly one request of the nearest assistant message
\* before it, and each assistant message is followed by the answers to its
\* requests, as many and in the same order
ToolMessagesMatch(h) ==
    /\ \A i \in 1..Len(h) :
          is_tool(h[i]) =>
              /\ \E a \in AssistantIdx(h) : a < i
              /\ LET a == Max({j \in AssistantIdx(h) : j < i})
                     calls == calls_of(h[a])
                 IN  Cardinality({k \in 1..Len(calls) :
                                     Some(calls[k].id) = h[i].tool_call_id}) = 1
    /\ \A a \in AssistantIdx(h) : Answers(h, a) = Requested(h, a)

\* every request of every assistant message has exactly one tool message after it
\* (ids are unique within a turn, so the answer is looked for within the turn)
AllCallsAnswered(h) ==
    \A a \in AssistantIdx(h) :
        \A k \in 1..Len(calls_of(h[a])) :
            Cardinality({i \in (a + 1)..(NextAssistant(h, a) - 1) :
                            /\ is_tool(h[i])
                            /\ h[i].tool_call_id = Some(calls_of(h[a])[k].id)}) = 1

\* the part of the history the current run() appended after its user message
RunStart(h) == Max({i \in 1..Len(h) : h[i].role = "user"})
RunMessages(h) == SubSeq(h, RunStart(h) + 1, Len(h))
RunReplies(h) == SelectSeq(RunMessages(h), is_assistant)

\* run() has returned and nothing was called since
RunEnded == pc = "idle" /\ is_some(returned)
RunFailed == RunEnded /\ ~unwrap(returned).ok
\* chat() is the next thing the loop does
ChatNext == pc = "loop" /\ ~iteration_exceeded(iteration + 1)

\* the call execute_tool_call is about to handle
CurrentCall == tool_calls[next_call]
CurrentArgs == from_str(CurrentCall.function.arguments)
CurrentOutcomes ==
    execute_tool(tool_definitions, builtin_tools, def_files, files,
                 CurrentCall.function.name, CurrentArgs.val)

\* the parameter decode each builtin starts with
builtin_params_ok(name, data) ==
    CASE name = "read" -> ReadParams_ok(data)
      [] name = "write" -> WriteParams_ok(data)
      [] name = "edit" -> EditParams_ok(data)
      [] name = "glob" -> GlobParams_ok(data)
      [] name = "grep" -> GrepParams_ok(data)
      [] name = "bash" -> BashParams_ok(data)
      [] name = "todo" -> TodoParams_ok(data)

\* the arguments text is not JSON, or not of the shape the builtin decodes
DecodeFails(call) ==
    LET args == from_str(call.function.arguments)
    IN  \/ ~args.ok
        \/ /\ call.function.name \in BuiltinNames
           /\ ~builtin_params_ok(call.function.name, args.val)

\* a read or edit with well-formed parameters of a file that does not exist
MissingFileCall(call, fs) ==
    LET args == from_str(call.function.arguments)
    IN  /\ call.function.name \in {"read", "edit"}
        /\ args.ok
        /\ builtin_params_ok(call.function.name, args.val)
        /\ field(args.val, "file_path").v \notin DOMAIN fs

----------------------------------------------------------------------------
(* Properties of the agent loop *)

\* C1: between operations (set_system_prompt / run / clear), every tool message's
\* tool_call_id is the id of exactly one request of the nearest preceding
\* assistant message, and the tool messages after an assistant message are as
\* many as, and in the order of, its requests.
C1_ToolMessagesMatchRequests == pc = "idle" => ToolMessagesMatch(messages)

\* C2: whenever chat() is about to be called, every request of every assistant
\* message of the history it sends has exactly one matching tool message after it.
C2_NoQueryWhileOutstanding == ChatNext => AllCallsAnswered(messages)

\* C3: no run issues more than max_iterations queries; the iteration-limit error
\* is returned after exactly max_iterations queries; and a run in which every
\* reply requested a tool call, every call was answered and the transport never
\* failed ends with the iteration-limit error.
C3_IterationCeiling ==
    /\ queries <= max_iterations
    /\ pc \in {"loop", "exec"} => iteration = queries
    /\ returned = Some(Err(MaxIterationsError)) => queries = max_iterations
    /\ ( /\ RunEnded
         /\ returned # Some(Err(TransportError))
         /\ \A k \in 1..Len(RunReplies(messages)) :
                Len(calls_of(RunReplies(messages)[k])) > 0
         /\ AllCallsAnswered(RunMessages(messages)) )
       => returned = Some(Err(MaxIterationsError))

\* a run that was answered with a tool request max_iterations times, each call
\* returning a result, has ended on the ceiling
C3_Witness ==
    /\ RunEnded
    /\ returned = Some(Err(MaxIterationsError))
    /\ queries = max_iterations
    /\ Len(RunReplies(messages)) = max_iterations
    /\ \A k \in 1..Len(RunReplies(messages)) :
           Len(calls_of(RunReplies(messages)[k])) > 0
    /\ AllCallsAnswered(RunMessages(messages))

\* C4: when a run has ended and its N-th reply was the first to carry no tool
\* call, all calls before it answered, the run returned Ok with that reply's
\* content after exactly N queries and that reply is the last message.
C4_FirstPlainReplyEndsRun ==
    RunEnded =>
        LET replies == RunReplies(messages)
            plain == {k \in 1..Len(replies) : Len(calls_of(replies[k])) = 0}
        IN  (plain # {} /\ Min(plain) <= max_iterations) =>
                LET N == Min(plain)
                IN  /\ returned = Some(Ok(replies[N].content))
                    /\ queries = N
                    /\ Last(messages) = replies[N]

\* C5: a dispatch that yields a ToolResult appends exactly one tool message that
\* points at the call's id, with the raw output on success and "Error: " followed
\* by the error text on failure, and leaves the turn going: the next call of the
\* turn is up, or the loop head after the last one.  The turn is abandoned only
\* when the arguments do not decode or the dispatch yields no ToolResult.
C5_FailedToolKeepsTurn ==
    [][ /\ (pc = "exec" /\ pc' # "idle") =>
            /\ is_some(result') /\ unwrap(result').ok
            /\ \E o \in CurrentOutcomes : o.res = unwrap(result')
            /\ LET r == unwrap(result').val
               IN  messages' = Append(messages,
                       Message("tool",
                               IF r.success THEN r.output
                               ELSE "Error: " \o unwrap_or(r.error, "Unknown error"),
                               None, Some(CurrentCall.id)))
            /\ returned' = None
            /\ tool_calls' = tool_calls
            /\ next_call' = next_call + 1
            /\ pc' = IF next_call < Len(tool_calls) THEN "exec" ELSE "loop"
        /\ (pc = "exec" /\ pc' = "idle") =>
            /\ messages' = messages
            /\ \/ ~CurrentArgs.ok
               \/ \E o \in CurrentOutcomes : ~o.res.ok
      ]_vars

\* the first call of a turn failed, its failure is in the history, and the second
\* call of the turn is up
C5_Witness ==
    /\ pc = "exec"
    /\ next_call = 2
    /\ is_some(result) /\ ~unwrap(result).val.success
    /\ is_tool(Last(messages))
    /\ starts_with(Last(messages).content, "Error: ")
    /\ Last(messages).tool_call_id = Some(tool_calls[1].id)

\* C6 (as stated): a run that returned an error returned the transport's failure
\* or the iteration-limit error.
C6_OnlyTransportOrCeiling ==
    RunFailed => unwrap(returned).err \in {TransportError, MaxIterationsError}

\* C6 (amended): run() returns an error only at the loop head, on the ceiling or
\* on a failed chat(), or while handling a call whose arguments text is not JSON
\* or whose dispatch returns Err, and then with that error; a dispatch that
\* yields a ToolResult, failed or not, does not make run() return.
C6_ErrorsOfRun ==
    [][ /\ (is_some(returned') /\ ~unwrap(returned').ok /\ returned' # returned) =>
            LET e == unwrap(returned').err
            IN  \/ pc = "loop" /\ iteration_exceeded(iteration + 1)
                   /\ e = MaxIterationsError /\ queries' = queries
                \/ pc = "loop" /\ ~iteration_exceeded(iteration + 1)
                   /\ e = TransportError /\ queries' = queries + 1
                \/ pc = "exec" /\ ~CurrentArgs.ok
                   /\ e = ArgumentsError(CurrentCall.function.arguments)
                \/ pc = "exec" /\ CurrentArgs.ok
                   /\ \E o \in CurrentOutcomes : ~o.res.ok /\ e = o.res.err
        /\ (pc = "exec" /\ CurrentArgs.ok /\ \A o \in CurrentOutcomes : o.res.ok) =>
            (pc' # "idle" /\ returned' = None)
      ]_vars

\* a run has returned the registry's error for a name it cannot resolve
C6_Witness ==
    /\ RunFailed
    /\ unwrap(returned).err = "Tool definition not found: nope"
    /\ is_assistant(Last(messages))

\* C7: handling a read or an edit of a file that does not exist appends a tool
\* message whose content starts with "Error: " and does not end the run.
C7_MissingFileReachesModel ==
    [][ (pc = "exec" /\ MissingFileCall(CurrentCall, files)) =>
            /\ Len(messages') = Len(messages) + 1
            /\ is_tool(Last(messages'))
            /\ starts_with(Last(messages').content, "Error: ")
            /\ returned' = None
      ]_vars

\* C8: handling a call whose arguments are not JSON, or not of the shape the
\* builtin decodes, ends the run with an error: no message is appended, no later
\* call of the turn is handled and no query follows.
C8_DecodeFailureAbortsRun ==
    [][ (pc = "exec" /\ DecodeFails(CurrentCall)) =>
            /\ messages' = messages
            /\ pc' = "idle"
            /\ is_some(returned') /\ ~unwrap(returned').ok
            /\ queries' = queries
            /\ tool_calls' = <<>>
      ]_vars

\* a turn of two calls was abandoned at a call whose arguments are not JSON:
\* the assistant message is the last one and its calls have no answers
C8_Witness ==
    /\ RunFailed
    /\ unwrap(returned).err = ArgumentsError(ARGS_TRUNCATED)
    /\ is_assistant(Last(messages))
    /\ Len(calls_of(Last(messages))) = 2
    /\ queries = 1

\* C9: clear() with a system prompt set leaves exactly the system message.
C9_ClearKeepsSystemPrompt ==
    [][ (clear_history /\ is_some(system_prompt)) =>
            messages' = <<Message("system", unwrap(system_prompt), None, None)>>
      ]_vars

\* C10: every step other than clear() leaves the history it found as a prefix of
\* the history it leaves.
C10_AppendOnly == [][clear_history \/ IsPrefix(messages, messages')]_vars

\* a run that failed has left its user message and its replies behind it
C10_Witness ==
    /\ RunFailed
    /\ Len(messages) >= 4
    /\ messages[1].role = "user"
    /\ \E i \in 2..Len(messages) : messages[i].role = "system"

\* C11: a run counts its own passes only: while it is alive its counter is the
\* number of replies it has received itself, and at the loop head it may query
\* exactly when that number is below max_iterations, whatever earlier runs left
\* in the history.
C11_CounterRestartsPerRun ==
    /\ pc \in {"loop", "exec"} => iteration = Len(RunReplies(messages))
    /\ pc = "loop" => (ChatNext <=> Len(RunReplies(messages)) < max_iterations)

\* a run has used all its max_iterations queries although an earlier run had
\* already been answered
C11_Witness ==
    /\ RunEnded
    /\ returned = Some(Err(MaxIterationsError))
    /\ queries = max_iterations
    /\ Len(RunReplies(messages)) = max_iterations
    /\ \E i \in 1..RunStart(messages) : is_assistant(messages[i])

----------------------------------------------------------------------------
(* The registry called directly: resolve, discover_all and dispatch, while   *)
(* definition files appear in the definitions directory                      *)

MaxDefFiles == 2

DefStems == {"deploy", "read", "lookup"}
DefTexts == {DEF_DEPLOY, DEF_DEPLOY_V2, DEF_READ_SCRIPT, DEF_NO_PATH, DEF_EMPTY_URL, DEF_CUT}
ResolveNames == {"read", "deploy", "lookup", "nope"}

InitRegistry ==
    /\ messages = <<>> /\ pc = "idle" /\ iteration = 0 /\ llm_tools = {} /\ tool_calls = <<>>
    /\ next_call = 1 /\ result = None /\ returned = None /\ queries = 0
    /\ system_prompt = None
    /\ menu = {}
    /\ tool_definitions = builtin_definitions
    /\ builtin_tools = BuiltinNames
    /\ def_files = <<>>
    /\ files = ("a.txt" :> "x\ny")
    /\ last_call = None
    /\ child = None

loop_vars ==
    <<messages, pc, iteration, llm_tools, tool_calls, next_call, result, returned, queries,
      system_prompt, menu, builtin_tools, child>>

\* somebody writes <stem>.json in the definitions directory: a new file, or a
\* new text for a file that is there
place_file(stem, text) ==
    /\ Cardinality(DOMAIN def_files \cup {stem}) <= MaxDefFiles
    /\ def_files' = (stem :> text) @@ def_files
    /\ UNCHANGED <<loop_vars, tool_definitions, files, last_call>>

\* registry.get_tool_definition(name)
resolve(name) ==
    /\ tool_definitions' = get_tool_definition(tool_definitions, def_files, name).defs
    /\ last_call' = Some([op |-> "resolve", name |-> name,
                          res |-> get_tool_definition(tool_definitions, def_files, name).res])
    /\ UNCHANGED <<loop_vars, def_files, files>>

\* registry.discover_user_tools()
discover_all ==
    /\ \E out \in discover_user_tools(tool_definitions, def_files) :
           /\ tool_definitions' = out.defs
           /\ last_call' = Some([op |-> "discover", name |-> "", res |-> out.res])
    /\ UNCHANGED <<loop_vars, def_files, files>>

\* registry.execute_tool(name, {})
dispatch(name) ==
    /\ \E o \in execute_tool(tool_definitions, builtin_tools, def_files, files,
                             name, EmptyObj) :
           /\ tool_definitions' = o.defs
           /\ files' = o.files
           /\ last_call' = Some([op |-> "dispatch", name |-> name, res |-> o.res])
    /\ UNCHANGED <<loop_vars, def_files>>

NextRegistry ==
    \/ \E stem \in DefStems, text \in DefTexts : place_file(stem, text)
    \/ \E name \in ResolveNames : resolve(name)
    \/ discover_all
    \/ \E name \in ResolveNames : dispatch(name)

SpecRegistry == InitRegistry /\ [][NextRegistry]_vars

----------------------------------------------------------------------------
(* Properties of the registry *)

Range(f) == {f[x] : x \in DOMAIN f}

\* what loading <stem>.json gives in the current directory
LoadedDef(stem) == from_file(unwrap(user_tools_dir), def_files, stem)
WellFormed(stem) == LoadedDef(stem).ok
WellFormedStems == {stem \in DOMAIN def_files : WellFormed(stem)}
\* the operation a call record is of
LastOp(c) == IF is_some(c) THEN unwrap(c).op ELSE "none"
\* the cache entries a step added or changed
Touched(old, new) == {n \in DOMAIN new : n \notin DOMAIN old \/ new[n] # old[n]}

\* C12: resolving a name that is not cached and has no definition file fails with
\* "Tool definition not found" and leaves the cache as it was; resolving a name
\* that is not cached and has a well-formed file succeeds with the file's
\* definition and adds exactly that entry to the cache.
C12_ResolveUnknownThenFile ==
    [][ \A n \in ResolveNames :
          (LastOp(last_call') = "resolve" /\ resolve(n) /\ n \notin DOMAIN tool_definitions) =>
              LET r == unwrap(last_call').res
              IN  /\ n \notin DOMAIN def_files =>
                        /\ ~r.ok
                        /\ r.err = "Tool definition not found: " \o n
                        /\ tool_definitions' = tool_definitions
                  /\ (n \in DOMAIN def_files /\ WellFormed(n)) =>
                        /\ r.ok
                        /\ r.val = LoadedDef(n).val
                        /\ DOMAIN tool_definitions' = DOMAIN tool_definitions \cup {n}
                        /\ tool_definitions'[n] = r.val
                        /\ \A m \in DOMAIN tool_definitions :
                               tool_definitions'[m] = tool_definitions[m]
      ]_vars

\* a name no builtin carries was resolved from its file and is in the cache now
C12_Witness ==
    /\ is_some(last_call)
    /\ unwrap(last_call).op = "resolve"
    /\ unwrap(last_call).name = "deploy"
    /\ unwrap(last_call).res.ok
    /\ "deploy" \in DOMAIN tool_definitions
    /\ tool_definitions["deploy"] = unwrap(last_call).res.val
    /\ "lookup" \notin DOMAIN tool_definitions /\ "lookup" \in DOMAIN def_files

\* C13: no step of resolve, discover_all or dispatch removes a name from the
\* cache or replaces the definition cached under a name.
C13_CacheInsertOnly ==
    [][ \A n \in DOMAIN tool_definitions :
            /\ n \in DOMAIN tool_definitions'
            /\ tool_definitions'[n] = tool_definitions[n]
      ]_vars

Decodes(text) == from_str(text).ok /\ ToolDefinition_from_value(from_str(text).val).ok
Decoded(text) == ToolDefinition_from_value(from_str(text).val).val
\* tagged script without a non-empty path, or remote without a non-empty endpoint
LacksTarget(d) ==
    \/ d.implementation_type = "script"
       /\ (is_none(d.script_path) \/ unwrap(d.script_path) = "")
    \/ d.implementation_type = "mcp_server"
       /\ (is_none(d.server_url) \/ unwrap(d.server_url) = "")

\* C15: a definition file tagged script without a non-empty path, or tagged
\* mcp_server without a non-empty endpoint, does not load; the builtin
\* definitions validate; and so no cached definition lacks its target when it
\* is dispatched.
C15_ValidationAtLoad ==
    /\ \A stem \in DOMAIN def_files :
           (Decodes(def_files[stem]) /\ LacksTarget(Decoded(def_files[stem])))
               => ~LoadedDef(stem).ok
    /\ \A n \in BuiltinNames : validate(builtin_definitions[n]).ok
    /\ \A n \in DOMAIN tool_definitions : ~LacksTarget(tool_definitions[n])

----------------------------------------------------------------------------
(* tools/executors.rs, execute_script step by step: spawn, the write of the  *)
(* parameters to the child's standard input, and the polling loop of         *)
(* wait_with_timeout. Time is counted in poll intervals since the spawn.     *)

\* `thread::sleep(Duration::from_millis(100))`
POLL_MS == 100
\* the timeout of the definition, in poll intervals
TimeoutPolls == 2
\* how long a call that does not return is watched
MaxClock == TimeoutPolls + 2

SCRIPT == "/home/u/.code_agent/tools/scripts/deploy.sh"
script_timeout_ms == Some(TimeoutPolls * POLL_MS)

\* what the script does by itself: r of ScriptRuns says whether it can be
\* spawned and whether and how it exits; reads says whether it reads its
\* standard input
ChildKinds == {r \in ScriptRuns : r.spawned => r.piped}

\* the call after spawn(): where the parent is, the time, when the clock of
\* wait_with_timeout started, whether the child process runs, whether the
\* serialized parameters fit the pipe's buffer, and what the call returned
ScriptCall(at, r, reads, fits) ==
    [pc |-> at, clock |-> 0, start |-> 0, alive |-> r.spawned, run |-> r,
     reads |-> reads, fits |-> fits, res |-> None]

script_returns(c, r) ==
    [c EXCEPT !.pc = "returned", !.res = Some(execute_script_result(SCRIPT, r, script_timeout_ms))]

InitScript ==
    /\ messages = <<>> /\ pc = "idle" /\ iteration = 0 /\ llm_tools = {} /\ tool_calls = <<>>
    /\ next_call = 1 /\ result = None /\ returned = None /\ queries = 0
    /\ system_prompt = None
    /\ menu = {}
    /\ tool_definitions = builtin_definitions
    /\ builtin_tools = BuiltinNames
    /\ def_files = <<>>
    /\ files = ("a.txt" :> "x\ny")
    /\ last_call = None
    /\ child = None

script_loop ==
    <<messages, pc, iteration, llm_tools, tool_calls, next_call, result, returned, queries,
      system_prompt, menu, tool_definitions, builtin_tools, def_files, files>>
script_rest == <<script_loop, last_call>>

\* Command::new(..).spawn(): Err when the spawn fails
script_spawn(r, reads, fits) ==
    /\ child = None
    /\ child' = Some(IF r.spawned THEN ScriptCall("write", r, reads, fits)
                     ELSE script_returns(ScriptCall("spawn", r, reads, fits), r))
    /\ UNCHANGED script_rest

\* the child process ends by itself, at a time of its choosing
child_exit ==
    /\ is_some(child)
    /\ unwrap(child).pc \in {"write", "wait"}
    /\ unwrap(child).alive /\ unwrap(child).run.exited
    /\ child' = Some([unwrap(child) EXCEPT !.alive = FALSE])
    /\ UNCHANGED script_rest

\* `stdin.write_all(params_json.as_bytes())?; stdin.flush()?`: fails with a
\* broken pipe when the child is gone, completes when the bytes fit the pipe's
\* buffer or the child reads them, and blocks otherwise; `Instant::now()` of
\* wait_with_timeout is taken after it
script_write ==
    /\ is_some(child)
    /\ unwrap(child).pc = "write"
    /\ IF ~unwrap(child).alive
       THEN child' = Some(script_returns(unwrap(child),
                                         [unwrap(child).run EXCEPT !.piped = FALSE]))
       ELSE /\ unwrap(child).fits \/ unwrap(child).reads
            /\ child' = Some([unwrap(child) EXCEPT !.pc = "wait", !.start = unwrap(child).clock])
    /\ UNCHANGED script_rest

\* a poll interval passes while write_all is blocked on a full pipe
script_write_blocked ==
    /\ is_some(child)
    /\ unwrap(child).pc = "write"
    /\ unwrap(child).alive /\ ~unwrap(child).fits /\ ~unwrap(child).reads
    /\ unwrap(child).clock < MaxClock
    /\ child' = Some([unwrap(child) EXCEPT !.clock = unwrap(child).clock + 1])
    /\ UNCHANGED script_rest

\* one turn of the loop of wait_with_timeout: the output of a child that has
\* exited, or kill() once the timeout has elapsed, or a sleep of one interval
wait_with_timeout_poll ==
    /\ is_some(child)
    /\ unwrap(child).pc = "wait"
    /\ child' = Some(
         IF ~unwrap(child).alive
         THEN script_returns(unwrap(child), unwrap(child).run)
         ELSE IF unwrap(child).clock - unwrap(child).start >= TimeoutPolls
         THEN script_returns([unwrap(child) EXCEPT !.alive = FALSE],
                             [unwrap(child).run EXCEPT !.exited = FALSE])
         ELSE [unwrap(child) EXCEPT !.clock = unwrap(child).clock + 1])
    /\ UNCHANGED script_rest

\* the caller has the result; the next call can start
script_done ==
    /\ is_some(child)
    /\ unwrap(child).pc = "returned"
    /\ child' = None
    /\ last_call' = Some([op |-> "script", name |-> SCRIPT, res |-> unwrap(unwrap(child).res)])
    /\ UNCHANGED script_loop

NextScript ==
    \/ \E r \in ChildKinds, reads \in BOOLEAN, fits \in BOOLEAN : script_spawn(r, reads, fits)
    \/ child_exit
    \/ script_write
    \/ script_write_blocked
    \/ wait_with_timeout_poll
    \/ script_done

SpecScript == InitScript /\ [][NextScript]_vars

----------------------------------------------------------------------------
(* Properties of the subprocess strategy *)

contains(s, sub) == matches_count(s, sub) > 0

\* C16: whatever the child does with its standard input and output, a call
\* whose child still runs when the timeout has elapsed has returned by
\* timeout + one poll interval after the spawn, with a ToolResult of
\* success=false that states the timeout, and the child does not run then.
C16_TimeoutBoundsTheCall ==
    is_some(child) =>
        /\ (unwrap(child).pc \in {"write", "wait"} /\ unwrap(child).alive)
               => unwrap(child).clock <= TimeoutPolls + 1
        /\ (unwrap(child).pc = "returned" /\ unwrap(child).run.spawned
                /\ unwrap(child).clock >= TimeoutPolls /\ ~unwrap(child).run.exited)
               => /\ unwrap(unwrap(child).res).ok
                  /\ ~unwrap(unwrap(child).res).val.success
                  /\ contains(unwrap(unwrap(unwrap(child).res).val.error), "timed out")
                  /\ ~unwrap(child).alive
                  /\ unwrap(child).clock <= TimeoutPolls + 1

\* C17: a call whose script has exited with a non-zero status before the
\* timeout returns a ToolResult of success=false whose error text has the exit
\* code and the text of standard error.
C17_NonZeroExitIsToolError ==
    (/\ is_some(child)
     /\ unwrap(child).pc = "returned"
     /\ unwrap(child).run.spawned /\ unwrap(child).run.exited
     /\ unwrap(child).run.code # 0
     /\ ~unwrap(child).alive
     /\ unwrap(child).clock - unwrap(child).start < TimeoutPolls)
        => /\ unwrap(unwrap(child).res).ok
           /\ ~unwrap(unwrap(child).res).val.success
           /\ contains(unwrap(unwrap(unwrap(child).res).val.error),
                       ToString(unwrap(child).run.code))
           /\ contains(unwrap(unwrap(unwrap(child).res).val.error),
                       unwrap(child).run.stderr)

\* what standard output alone determines: the ToolResult it parses as, or a
\* successful result with the raw text
FromStdout(stdout) ==
    IF from_str(stdout).ok /\ ToolResult_from_value(from_str(stdout).val).ok
    THEN ToolResult_from_value(from_str(stdout).val).val
    ELSE ToolResult_success(stdout)

\* C31: a call whose script has exited with status 0 before the timeout returns
\* the ToolResult parsed from its standard output if that parses as one, and
\* otherwise a successful result whose output is the raw standard-output text;
\* the text of standard error has no part in it.
C31_SuccessExitGivesStdout ==
    (/\ is_some(child)
     /\ unwrap(child).pc = "returned"
     /\ unwrap(child).run.spawned /\ unwrap(child).run.exited
     /\ unwrap(child).run.code = 0
     /\ ~unwrap(child).alive
     /\ unwrap(child).clock - unwrap(child).start < TimeoutPolls)
        => unwrap(unwrap(child).res) = Ok(FromStdout(unwrap(child).run.stdout))

----------------------------------------------------------------------------
(* tools/bash.rs, BashTool::execute step by step: the spawn and the wait of  *)
(* `.output()` for the command's exit. Time is counted in milliseconds since *)
(* the spawn.                                                                *)

\* how long a call is watched
MaxBashClock == 4

\* the `timeout` of the parameters, in milliseconds: none, or one a command
\* can outlast within the time watched
BashTimeouts == {None, Some(1), Some(2)}

\* how long the command runs by itself: so many milliseconds, or for ever
BashDurations == {None} \cup {Some(d) : d \in 0..MaxBashClock}

BashData(timeout) ==
    IF is_some(timeout)
    THEN JObj([command |-> JStr("sleep"), timeout |-> JNum(unwrap(timeout))])
    ELSE JObj([command |-> JStr("sleep")])

\* the call inside `.output()`: the time, the timeout BashParams holds,
\* whether the command still runs and for how long it does
BashCall(r, data, lasts) ==
    [pc |-> IF r.spawned THEN "output" ELSE "returned", clock |-> 0,
     timeout |-> dflt_val(data, "timeout", default_timeout),
     alive |-> r.spawned, run |-> r, lasts |-> lasts,
     res |-> IF r.spawned THEN None ELSE Some(BashTool_result(r))]

InitBash ==
    /\ messages = <<>> /\ pc = "idle" /\ iteration = 0 /\ llm_tools = {} /\ tool_calls = <<>>
    /\ next_call = 1 /\ result = None /\ returned = None /\ queries = 0
    /\ system_prompt = None
    /\ menu = {}
    /\ tool_definitions = builtin_definitions
    /\ builtin_tools = BuiltinNames
    /\ def_files = <<>>
    /\ files = ("a.txt" :> "x\ny")
    /\ last_call = None
    /\ child = None

\* BashTool::execute up to `Command::new("bash").arg("-c").arg(..).output()`
bash_spawn(r, timeout, lasts) ==
    /\ child = None
    /\ BashParams_ok(BashData(timeout))
    /\ child' = Some(BashCall(r, BashData(timeout), lasts))
    /\ UNCHANGED script_rest

\* a millisecond passes while the command runs and `.output()` waits for it
bash_tick ==
    /\ is_some(child)
    /\ unwrap(child).pc = "output" /\ unwrap(child).alive
    /\ unwrap(child).lasts # Some(unwrap(child).clock)
    /\ unwrap(child).clock < MaxBashClock
    /\ child' = Some([unwrap(child) EXCEPT !.clock = unwrap(child).clock + 1])
    /\ UNCHANGED script_rest

\* the command ends by itself
bash_exit ==
    /\ is_some(child)
    /\ unwrap(child).pc = "output" /\ unwrap(child).alive
    /\ unwrap(child).lasts = Some(unwrap(child).clock)
    /\ child' = Some([unwrap(child) EXCEPT !.alive = FALSE])
    /\ UNCHANGED script_rest

\* `.output()` returns once the command has exited, and the rest of execute
\* makes the ToolResult
bash_output ==
    /\ is_some(child)
    /\ unwrap(child).pc = "output" /\ ~unwrap(child).alive
    /\ child' = Some([unwrap(child) EXCEPT !.pc = "returned",
                                           !.res = Some(BashTool_result(unwrap(child).run))])
    /\ UNCHANGED script_rest

\* the caller has the result; the next call can start
bash_done ==
    /\ is_some(child)
    /\ unwrap(child).pc = "returned"
    /\ child' = None
    /\ last_call' = Some([op |-> "bash", name |-> "bash", res |-> unwrap(unwrap(child).res)])
    /\ UNCHANGED script_loop

NextBash ==
    \/ \E r \in BashRuns, timeout \in BashTimeouts, lasts \in BashDurations :
           bash_spawn(r, timeout, lasts)
    \/ bash_tick
    \/ bash_exit
    \/ bash_output
    \/ bash_done

SpecBash == InitBash /\ [][NextBash]_vars

\* C34: a bash call does not stay blocked beyond its timeout: while the call
\* waits for the command, no more time than the timeout has passed since the
\* spawn.
C34_BashHonoursTimeout ==
    (is_some(child) /\ unwrap(child).pc = "output")
        => unwrap(child).clock <= unwrap(child).timeout

----------------------------------------------------------------------------
(* The agent loop with a remote tool: lookup.json declares an mcp_server     *)
(* definition and the model asks for lookup                                  *)

RemoteCallMenu == { <<"lookup", ARGS_EMPTY>>, <<"bash", ARGS_LS>> }
RemoteMenus == { {a, b} : a, b \in RemoteCallMenu }

InitRemote ==
    /\ messages = <<>> /\ pc = "idle" /\ iteration = 0 /\ llm_tools = {} /\ tool_calls = <<>>
    /\ next_call = 1 /\ result = None /\ returned = None /\ queries = 0
    /\ system_prompt = None
    /\ menu \in RemoteMenus
    /\ tool_definitions = builtin_definitions
    /\ builtin_tools = BuiltinNames
    /\ def_files = ("lookup" :> DEF_LOOKUP)
    /\ files = ("a.txt" :> "x\ny")
    /\ last_call = None
    /\ child = None

SpecRemote == InitRemote /\ [][Next]_vars

\* the definition the current call resolves to is a remote one
RemoteCall ==
    /\ pc = "exec" /\ CurrentArgs.ok
    /\ get_tool_definition(tool_definitions, def_files, CurrentCall.function.name).res.ok
    /\ get_tool_definition(tool_definitions, def_files,
                           CurrentCall.function.name).res.val.implementation_type = "mcp_server"

\* what execute_mcp_server returns when the endpoint does not answer in time
RemoteTimeout ==
    execute_mcp_server_result(CHOOSE r \in McpReplies : r.failure = MCP_TIMED_OUT)

\* C18: when the endpoint of a remote tool does not answer within the timeout,
\* dispatch returns a ToolResult with success=false, execute_tool_call appends
\* it as a tool message starting with "Error: ", and the run goes on: no run
\* returns the timeout as its error.
C18_RemoteTimeoutRecoverable ==
    /\ RemoteCall =>
          /\ RemoteTimeout.ok
          /\ ~RemoteTimeout.val.success
          /\ starts_with(result_content(RemoteTimeout.val), "Error: ")
    /\ RunEnded => returned # Some(Err("MCP server request failed: " \o MCP_TIMED_OUT))

\* the status is one of the 2xx
is_success(status) == status >= 200 /\ status < 300

\* C32: the remote strategy turns every response of the endpoint into a
\* ToolResult: a non-success status into an error with the status and the
\* body; a success response with an `error` member into an error with its
\* message; a success response with a `result` into the ToolResult it parses
\* as, or else a successful result; a success response with neither into the
\* error "MCP server response missing result field".
C32_EveryResponseIsAToolResult ==
    RemoteCall =>
        \A r \in McpReplies :
            r.answered =>
                /\ execute_mcp_server_result(r).ok
                /\ ~is_success(r.status) =>
                       /\ ~execute_mcp_server_result(r).val.success
                       /\ contains(unwrap(execute_mcp_server_result(r).val.error),
                                   ToString(r.status))
                       /\ contains(unwrap(execute_mcp_server_result(r).val.error), r.body)
                /\ (is_success(r.status) /\ r.body \in DOMAIN McpBodies) =>
                       IF has_field(McpBodies[r.body], "error")
                       THEN /\ ~execute_mcp_server_result(r).val.success
                            /\ contains(unwrap(execute_mcp_server_result(r).val.error),
                                        field(field(McpBodies[r.body], "error"), "message").v)
                       ELSE IF has_field(McpBodies[r.body], "result")
                       THEN IF ToolResult_from_value(field(McpBodies[r.body], "result")).ok
                            THEN execute_mcp_server_result(r).val =
                                   ToolResult_from_value(field(McpBodies[r.body], "result")).val
                            ELSE execute_mcp_server_result(r).val.success
                       ELSE execute_mcp_server_result(r).val =
                               ToolResult_error("MCP server response missing result field")

----------------------------------------------------------------------------
(* Properties of the results of dispatch *)

\* output and error of a ToolResult exclude each other
Exclusive(t) ==
    /\ t.success => is_none(t.error)
    /\ ~t.success => (is_some(t.error) /\ t.output = "")

\* C19: the ToolResult execute_tool_call got from dispatch, whichever strategy
\* produced it, has no error when success is true, and has an error and an
\* empty output when success is false.
C19_OutputXorError ==
    is_some(result) => Exclusive(unwrap(result).val)

----------------------------------------------------------------------------
(* tools/file_ops.rs, EditTool called through the registry on a file of      *)
(* some content                                                              *)

\* the longest content a file is followed to
MaxContent == 5

EditContents == {"", "ab", "aaa", "abab", "xaax"}
EditPaths == {"a.txt", "nofile"}
OldStrings == {"a", "aa", "ab", ""}
NewStrings == {"b", ""}

EditData(path, old, new, all) ==
    JObj([file_path |-> JStr(path), old_string |-> JStr(old),
          new_string |-> JStr(new), replace_all |-> JBool(all)])

InitEdit ==
    /\ messages = <<>> /\ pc = "idle" /\ iteration = 0 /\ llm_tools = {} /\ tool_calls = <<>>
    /\ next_call = 1 /\ result = None /\ returned = None /\ queries = 0
    /\ system_prompt = None
    /\ menu = {}
    /\ tool_definitions = builtin_definitions
    /\ builtin_tools = BuiltinNames
    /\ def_files = <<>>
    /\ files \in {("a.txt" :> c) : c \in EditContents}
    /\ last_call = None
    /\ child = None

\* registry.execute_tool("edit", data)
edit_call(data) ==
    /\ \E o \in execute_tool(tool_definitions, builtin_tools, def_files, files,
                             "edit", data) :
           /\ \A p \in DOMAIN o.files : Len(o.files[p]) <= MaxContent
           /\ tool_definitions' = o.defs
           /\ files' = o.files
           /\ last_call' = Some([op |-> "edit", name |-> "edit", res |-> o.res,
                                 args |-> data])
    /\ UNCHANGED <<loop_vars, def_files>>

NextEdit ==
    \E path \in EditPaths, old \in OldStrings, new \in NewStrings, all \in BOOLEAN :
        edit_call(EditData(path, old, new, all))

SpecEdit == InitEdit /\ [][NextEdit]_vars

----------------------------------------------------------------------------
(* Properties of edit *)

\* the places of s at which pat stands
occurrences(s, pat) ==
    {i \in 1..(Len(s) + 1) :
        i + Len(pat) - 1 <= Len(s) /\ SubSeq(s, i, i + Len(pat) - 1) = pat}

\* C20: an edit with replace_all=false of a file that exists changes the file
\* only when old_string occurs in it exactly once; when it occurs at two or more
\* places the result is a ToolResult error whose text has the number of
\* occurrences, when it occurs nowhere the result is a ToolResult error, and in
\* both cases the file is as before.
C20_EditOnlyWhenUnique ==
    [][ (/\ LastOp(last_call') = "edit"
         /\ ~unwrap(last_call').args.v.replace_all.v
         /\ unwrap(last_call').args.v.file_path.v \in DOMAIN files) =>
          LET call == unwrap(last_call')
              n == Cardinality(occurrences(files[call.args.v.file_path.v],
                                           call.args.v.old_string.v))
          IN  /\ n >= 2 => /\ call.res.ok /\ ~call.res.val.success
                            /\ contains(unwrap(call.res.val.error), ToString(n))
                            /\ files' = files
              /\ n = 0 => /\ call.res.ok /\ ~call.res.val.success
                           /\ files' = files
              /\ files' # files => n = 1
      ]_vars

----------------------------------------------------------------------------
(* Further properties of the agent loop *)

\* C21: a reply is followed by tool execution exactly when it carries one or
\* more tool calls; a reply that carries none, its list absent or present but
\* empty, ends the run with the reply's content, so no query follows it.
C21_ToolCallsDecideTheBranch ==
    [][ (pc = "loop" /\ Len(messages') = Len(messages) + 1) =>
            /\ (pc' = "exec") <=> (Len(calls_of(Last(messages'))) >= 1)
            /\ Len(calls_of(Last(messages'))) = 0 =>
                   /\ pc' = "idle"
                   /\ returned' = Some(Ok(Last(messages').content))
      ]_vars

\* C22: a query is sent with the schemas of the definitions the registry holds
\* at that moment, those a lookup inserted earlier in the same run included.
C22_QueryCarriesCurrentSchemas ==
    [][ (pc = "loop" /\ queries' = queries + 1) =>
            llm_tools = get_tool_definitions(tool_definitions)
      ]_vars

\* the tool messages that follow the last assistant message of the history
TurnAnswers(h) == SubSeq(h, Max(AssistantIdx(h)) + 1, Len(h))
\* they answer the first n calls of the turn, one each, in the listed order
AnswersFirst(h, n) ==
    /\ Len(TurnAnswers(h)) = n
    /\ \A k \in 1..n : /\ is_tool(TurnAnswers(h)[k])
                        /\ TurnAnswers(h)[k].tool_call_id = Some(tool_calls[k].id)

\* C23: the calls of a turn are handled one at a time in the listed order: when
\* call k is about to be dispatched the turn's assistant message is followed by
\* exactly the tool messages of calls 1..k-1, and when the next query is about
\* to be sent it is followed by the tool message of every call of the turn; a
\* dispatch step ends with its own tool message appended or with the run over.
C23_CallsOneAfterAnother ==
    /\ pc = "exec" =>
          /\ next_call \in 1..Len(tool_calls)
          /\ calls_of(messages[Max(AssistantIdx(messages))]) = tool_calls
          /\ AnswersFirst(messages, next_call - 1)
    /\ (pc = "loop" /\ iteration > 0) =>
          /\ calls_of(messages[Max(AssistantIdx(messages))]) = tool_calls
          /\ AnswersFirst(messages, Len(tool_calls))

\* both calls of a two-call turn have been answered in order and the next query
\* is up
C23_Witness ==
    /\ ChatNext /\ Len(tool_calls) = 2
    /\ AnswersFirst(messages, 2)
    /\ TurnAnswers(messages)[1].content # TurnAnswers(messages)[2].content

\* C25: a query either gets a reply, which is appended, or fails, and then the
\* run is over at once with the transport's error: nothing is appended to the
\* history, no tool runs (cache and files are as before) and the failed run
\* issues no other query.
C25_TransportFailureAborts ==
    [][ (pc = "loop" /\ queries' = queries + 1) =>
            \/ /\ messages' = Append(messages, Last(messages'))
               /\ is_assistant(Last(messages'))
            \/ /\ messages' = messages
               /\ pc' = "idle"
               /\ returned' = Some(Err(TransportError))
               /\ tool_definitions' = tool_definitions /\ files' = files
               /\ ~ChatNext'
      ]_vars

\* the second query of a run failed: the run returned the transport's error and
\* the history ends with the tool message of the first turn
C25_Witness ==
    /\ RunFailed /\ unwrap(returned).err = TransportError
    /\ queries = 2
    /\ is_tool(Last(messages))

\* C35: a run() that returns an error rolls nothing back: the step that fails
\* leaves the history as it found it, with the run's user prompt, its
\* tool-call replies and the tool messages of the calls already executed; the
\* next run() pushes its user message behind all of that, and its first
\* query is made with the history so extended.
C35_FailedRunKeepsHistory ==
    [][ /\ (pc # "idle" /\ pc' = "idle" /\ ~unwrap(returned').ok) =>
              /\ messages' = messages
              /\ \E i \in 1..Len(messages') : messages'[i].role = "user"
        /\ (RunFailed /\ pc' = "loop") =>
              \E p \in UserPrompts :
                  messages' = Append(messages, Message("user", p, None, None))
        /\ (pc = "loop" /\ queries = 0 /\ queries' = 1) =>
              /\ Last(messages).role = "user"
              /\ IsPrefix(messages, messages')
      ]_vars

\* the first query of a run is about to be made with what a failed run left:
\* a reply asking for two calls, the tool message of the first of them only,
\* and then the new user message
C35_Witness ==
    /\ pc = "loop" /\ queries = 0
    /\ Len(messages) >= 4
    /\ Last(messages).role = "user"
    /\ is_tool(messages[Len(messages) - 1])
    /\ is_assistant(messages[Len(messages) - 2])
    /\ Len(calls_of(messages[Len(messages) - 2])) = 2

\* the call execute_tool_call is about to handle names a tool that is neither
\* cached nor has a definition file
UnknownToolCall ==
    /\ pc = "exec" /\ CurrentArgs.ok
    /\ CurrentCall.function.name \notin DOMAIN tool_definitions
    /\ CurrentCall.function.name \notin DOMAIN def_files

\* C36: a call of a tool whose name is neither cached nor backed by a definition
\* file ends the run with the error "Tool definition not found: <name>": no
\* tool message is appended for the call, the remaining calls of the turn are
\* not executed and no further query is made.
C36_UnknownToolAbortsRun ==
    [][ UnknownToolCall =>
            /\ returned' = Some(Err("Tool definition not found: "
                                     \o CurrentCall.function.name))
            /\ pc' = "idle"
            /\ messages' = messages
            /\ queries' = queries
            /\ tool_definitions' = tool_definitions /\ files' = files
      ]_vars

\* a run ended on the unknown name, the reply that asked for it being the last
\* message of the history
C36_Witness ==
    /\ RunFailed
    /\ unwrap(returned).err = "Tool definition not found: nope"
    /\ is_assistant(Last(messages))
    /\ \E j \in 1..Len(calls_of(Last(messages))) :
           calls_of(Last(messages))[j].function.name = "nope"

\* where the system messages of a history are
SystemIdx(h) == {i \in 1..Len(h) : h[i].role = "system"}

\* C40: whatever set_system_prompt, run and clear were called, the history has
\* at most one system message, and one it has is its first entry.
C40_OneSystemMessageFirst ==
    /\ Cardinality(SystemIdx(messages)) <= 1
    /\ SystemIdx(messages) \subseteq {1}

----------------------------------------------------------------------------
(* Further properties of the registry *)

\* C26: resolving a name that is not cached and whose definition file exists but
\* does not parse or does not validate fails with "Tool definition not found"
\* and leaves the cache as it was.
C26_MalformedFileIsNotFound ==
    [][ \A n \in ResolveNames :
          (/\ LastOp(last_call') = "resolve" /\ resolve(n)
           /\ n \notin DOMAIN tool_definitions
           /\ n \in DOMAIN def_files /\ ~WellFormed(n)) =>
              /\ ~unwrap(last_call').res.ok
              /\ unwrap(last_call').res.err = "Tool definition not found: " \o n
              /\ tool_definitions' = tool_definitions
      ]_vars

\* C27: resolve of a cached name returns the cached definition and leaves the
\* cache as it is, whatever the definitions directory holds; and writing a
\* definition file, be it named after a builtin or the file a cached definition
\* was loaded from, does not change what resolve returns for a cached name.
C27_CachedWinsOverFile ==
    [][ /\ \A n \in ResolveNames :
              (/\ LastOp(last_call') = "resolve" /\ resolve(n)
               /\ n \in DOMAIN tool_definitions) =>
                  /\ unwrap(last_call').res = Ok(tool_definitions[n])
                  /\ tool_definitions' = tool_definitions
        /\ def_files' # def_files =>
              \A n \in DOMAIN tool_definitions :
                  get_tool_definition(tool_definitions', def_files', n).res
                      = Ok(tool_definitions[n])
      ]_vars

\* deploy was resolved from its file, the file was rewritten, and resolve has
\* returned the definition loaded first
C27_Witness ==
    /\ LastOp(last_call) = "resolve"
    /\ unwrap(last_call).name = "deploy"
    /\ unwrap(last_call).res.ok
    /\ "deploy" \in DOMAIN def_files
    /\ LoadedDef("deploy").ok
    /\ unwrap(last_call).res.val # LoadedDef("deploy").val

\* C29: immediately after construction each of read, write, edit, glob, grep,
\* bash and todo has a builtin-tagged definition under its own name and a
\* registered in-process implementation, and no step of the registry (a
\* resolve, a discover_all, a dispatch, or a file written beside it) changes the
\* set of registered implementations
C29_BuiltinsRegisteredOnce ==
    /\ \A n \in {"read", "write", "edit", "glob", "grep", "bash", "todo"} :
           /\ n \in builtin_tools
           /\ n \in DOMAIN tool_definitions
           /\ tool_definitions[n].name = n
           /\ tool_definitions[n].implementation_type = "builtin"
    /\ [][builtin_tools' = builtin_tools]_vars

\* a dispatch after discover_all replaced the definition of read by a file's:
\* the in-process implementation of read is still registered
C29_Witness ==
    /\ LastOp(last_call) = "dispatch"
    /\ "deploy" \in DOMAIN tool_definitions
    /\ tool_definitions["read"].implementation_type = "script"
    /\ builtin_tools = {"read", "write", "edit", "glob", "grep", "bash", "todo"}

\* the script path a loaded definition has, given the one its file states
Rewritten(script_path) ==
    IF is_none(script_path) THEN None
    ELSE IF starts_with(unwrap(script_path), "/") \/ starts_with(unwrap(script_path), "~")
    THEN script_path
    ELSE Some("/home/u/.code_agent/tools/scripts/" \o unwrap(script_path))

\* C33: a definition loaded from a file, by a resolve of a name that was not
\* cached or by discover_all, has the script path of the file rewritten to
\* <parent of the definitions directory>/scripts/<path> when it is relative and
\* exactly as written when it starts with '/' or '~'; a file loaded again gives
\* the same path, so discover_all leaves the entry of an unchanged file alone.
C33_RelativeScriptPathRewritten ==
    [][ /\ \A n \in ResolveNames :
              (/\ LastOp(last_call') = "resolve" /\ resolve(n)
               /\ n \notin DOMAIN tool_definitions
               /\ unwrap(last_call').res.ok) =>
                  /\ n \in DOMAIN def_files /\ Decodes(def_files[n])
                  /\ tool_definitions'[n].script_path =
                         Rewritten(Decoded(def_files[n]).script_path)
        /\ (LastOp(last_call') = "discover" /\ discover_all) =>
              /\ \A n \in Touched(tool_definitions, tool_definitions') :
                     \E stem \in DOMAIN def_files :
                         /\ Decodes(def_files[stem])
                         /\ Decoded(def_files[stem]).name = n
                         /\ tool_definitions'[n].script_path =
                                Rewritten(Decoded(def_files[stem]).script_path)
              /\ \A n \in DOMAIN tool_definitions :
                     (/\ n \in DOMAIN def_files /\ Decodes(def_files[n])
                      /\ Decoded(def_files[n]).name = n
                      /\ tool_definitions[n].script_path =
                             Rewritten(Decoded(def_files[n]).script_path)
                      /\ \A other \in DOMAIN def_files \ {n} :
                             ~Decodes(def_files[other])
                             \/ Decoded(def_files[other]).name # n) =>
                         tool_definitions'[n].script_path = tool_definitions[n].script_path
      ]_vars

\* discover_all loaded a file with a relative path and one with a path under
\* the home shorthand
C33_Witness ==
    /\ LastOp(last_call) = "discover"
    /\ "deploy" \in DOMAIN def_files /\ def_files["deploy"] = DEF_DEPLOY
    /\ "read" \in DOMAIN def_files /\ def_files["read"] = DEF_READ_SCRIPT
    /\ tool_definitions["deploy"].script_path =
           Some("/home/u/.code_agent/tools/scripts/deploy.sh")
    /\ tool_definitions["read"].script_path = Some("~/read.sh")

\* C37: every key of the cache is the name of the definition stored under
\* it, whichever of construction, resolve and discover_all inserted it; so each
\* name in the schemas resolves to the definition the schema was made from.
C37_CacheKeyIsDefinitionName ==
    /\ \A n \in DOMAIN tool_definitions : tool_definitions[n].name = n
    /\ \A n \in DOMAIN tool_definitions :
           /\ tool_definitions[n].name \in DOMAIN tool_definitions
           /\ tool_definitions[tool_definitions[n].name] = tool_definitions[n]

\* C39: every cached definition tagged script has a script path and every
\* cached definition tagged mcp_server has a server URL, so no dispatch ends in
\* "Script tool missing script_path" or "MCP tool missing server_url".
C39_TargetsPresent ==
    /\ \A n \in DOMAIN tool_definitions :
           /\ tool_definitions[n].implementation_type = "script"
                  => is_some(tool_definitions[n].script_path)
           /\ tool_definitions[n].implementation_type = "mcp_server"
                  => is_some(tool_definitions[n].server_url)
    /\ \A n \in ResolveNames :
           \A o \in execute_tool(tool_definitions, builtin_tools, def_files, files,
                                  n, EmptyObj) :
               ~o.res.ok => o.res.err \notin {"Script tool missing script_path",
                                              "MCP tool missing server_url"}
    /\ LastOp(last_call) = "dispatch" =>
           (~unwrap(last_call).res.ok =>
                unwrap(last_call).res.err \notin {"Script tool missing script_path",
                                                  "MCP tool missing server_url"})

\* a script definition was dispatched from the cache while a file tagged
\* script without a path lies in the directory
C39_Witness ==
    /\ LastOp(last_call) = "dispatch"
    /\ unwrap(last_call).name = "deploy"
    /\ "deploy" \in DOMAIN tool_definitions
    /\ tool_definitions["deploy"].implementation_type = "script"
    /\ \E stem \in DOMAIN def_files : def_files[stem] = DEF_NO_PATH

----------------------------------------------------------------------------
(* The agent loop when every query and every dispatch returns: a run that    *)
(* has started keeps taking its next step                                    *)

run_step ==
    \/ run_bail
    \/ run_chat_err
    \/ \E response \in FinalReplies \cup ToolReplies(menu) : run_chat_ok(response)
    \/ execute_tool_call

SpecLive == InitRemote /\ [][Next]_vars /\ WF_vars(run_step)

\* C24: no run issues more than max_iterations queries, and every run that has
\* started returns, with a final answer or with an error.
C24_RunTerminates ==
    /\ [](queries <= max_iterations)
    /\ (pc # "idle") ~> RunEnded

\* a run has returned the answer it got from its last allowed query
C24_Witness ==
    /\ RunEnded /\ unwrap(returned).ok
    /\ queries = max_iterations
    /\ Len(calls_of(RunReplies(messages)[1])) > 0

----------------------------------------------------------------------------
(* The agent loop with user tools of every kind: deploy.json declares a      *)
(* script that is on disk, missing.json a script that is not, lookup.json a  *)
(* remote tool, and plain.json carries no implementation_type                *)

ToolsCallMenu ==
    { <<"deploy", ARGS_EMPTY>>, <<"missing", ARGS_EMPTY>>, <<"lookup", ARGS_EMPTY>>,
      <<"plain", ARGS_EMPTY>>, <<"read", ARGS_AFILE>> }
ToolsMenus == { {a, b} : a, b \in ToolsCallMenu }

InitTools ==
    /\ messages = <<>> /\ pc = "idle" /\ iteration = 0 /\ llm_tools = {} /\ tool_calls = <<>>
    /\ next_call = 1 /\ result = None /\ returned = None /\ queries = 0
    /\ system_prompt = None
    /\ menu \in ToolsMenus
    /\ tool_definitions = builtin_definitions
    /\ builtin_tools = BuiltinNames
    /\ def_files = ("deploy" :> DEF_DEPLOY) @@ ("missing" :> DEF_DEPLOY_V2)
                   @@ ("lookup" :> DEF_LOOKUP) @@ ("plain" :> DEF_PLAIN)
    /\ files = ("a.txt" :> "x\ny")
    /\ last_call = None
    /\ child = None

SpecTools == InitTools /\ [][Next]_vars

\* what resolve gives for the call that is up
CurrentDef ==
    get_tool_definition(tool_definitions, def_files, CurrentCall.function.name)
\* what the dispatch step handed back: the error run() returned, or the result
StepResult(ret, res) == IF is_some(ret) THEN unwrap(ret) ELSE unwrap(res)
\* the results the strategy named by the tag of def can give for the call
StrategyOutcomes(def) ==
    CASE def.implementation_type = "builtin" ->
            builtin_call(CurrentCall.function.name, files, CurrentArgs.val)
      [] def.implementation_type = "script" ->
            execute_script(files, unwrap(def.script_path), CurrentArgs.val, def.timeout_ms)
      [] def.implementation_type = "mcp_server" ->
            execute_mcp_server(files, unwrap(def.server_url), CurrentCall.function.name,
                               CurrentArgs.val, def.timeout_ms)

\* C28: a dispatch whose name does not resolve returns resolve's error; one that
\* resolves returns, unchanged, a result of the strategy its definition's tag
\* names, with that strategy's effect on the files; and a builtin-tagged
\* definition without a registered implementation gives an error that says so
\* and is not the "Tool definition not found" error.
C28_DispatchRoutesByTag ==
    [][ (pc = "exec" /\ CurrentArgs.ok) =>
          /\ tool_definitions' = CurrentDef.defs
          /\ ~CurrentDef.res.ok =>
                 StepResult(returned', result') = CurrentDef.res
          /\ (/\ CurrentDef.res.ok
              /\ CurrentDef.res.val.implementation_type = "builtin"
              /\ CurrentCall.function.name \notin builtin_tools) =>
                 /\ ~StepResult(returned', result').ok
                 /\ StepResult(returned', result').err
                        = "Builtin tool not found: " \o CurrentCall.function.name
                 /\ StepResult(returned', result').err
                        # "Tool definition not found: " \o CurrentCall.function.name
          /\ (/\ CurrentDef.res.ok
              /\ ~(/\ CurrentDef.res.val.implementation_type = "builtin"
                    /\ CurrentCall.function.name \notin builtin_tools)) =>
                 \E o \in StrategyOutcomes(CurrentDef.res.val) :
                     /\ StepResult(returned', result') = o.res
                     /\ files' = o.files
      ]_vars

\* a run has ended on the error of a builtin-tagged definition that has no
\* implementation
C28_Witness ==
    /\ RunFailed
    /\ unwrap(returned).err = "Builtin tool not found: plain"
    /\ "plain" \in DOMAIN tool_definitions
    /\ tool_definitions["plain"].implementation_type = "builtin"

\* the call that is up resolves to a script whose path is not on disk
MissingScriptCall ==
    /\ pc = "exec" /\ CurrentArgs.ok
    /\ CurrentDef.res.ok
    /\ CurrentDef.res.val.implementation_type = "script"
    /\ is_some(CurrentDef.res.val.script_path)
    /\ tilde(unwrap(CurrentDef.res.val.script_path)) \notin ScriptsOnDisk

C38_BuiltinTagHasImplementation ==
    /\ \A n \in DOMAIN tool_definitions :
           tool_definitions[n].implementation_type = "builtin" => n \in builtin_tools
    /\ RunFailed => ~starts_with(unwrap(returned).err, "Builtin tool not found")

====
